---- MODULE Spec2Model ----
(***************************************************************************)
(* Identity & Access core of the nexus platform: the authentication        *)
(* application service (login, refresh_token, logout, change_password,     *)
(* validate_token), the User aggregate it mutates, the relational user     *)
(* store with its version check, and the Redis session / token stores.     *)
(*                                                                         *)
(* Time is a clock in half seconds: datetime.utcnow() is finer than the     *)
(* whole seconds of a JWT exp and of a Redis TTL.  Each use case runs in a request handler    *)
(* (a member of Procs); a handler is cut into steps at the store calls it  *)
(* awaits, so that two handlers interleave exactly where the coroutines    *)
(* of the service can.  Consecutive writes of keys that the handler has    *)
(* just made up (a new session id, a new jti) are taken in one step.       *)
(* The JSON columns of the users table are modelled by the fields they     *)
(* carry.                                                                  *)
(***************************************************************************)
EXTENDS Integers, FiniteSets, Sequences, TLC

(* ------------------------------ bounds -------------------------------- *)

\* number of use cases started in one behaviour
MaxOps == 2

(* -------------------------- program constants -------------------------- *)

\* Optional[datetime] = None, and "no id" for optional string arguments
None == -1
MaxFailedAttempts == 5
LockMinutes == 30
AccessTokenMinutes == 60
RefreshTokenDays == 30
SessionHours == 24
\* pyotp.TOTP: a code per 30 seconds
TotpIntervalSeconds == 30
TotpValidWindow == 1
\* BaseEntity.version of a new aggregate
InitialVersion == 1

\* clock ticks in a second
TicksPerSecond == 2
Minutes(m) == m * 60 * TicksPerSecond

LockTime == Minutes(LockMinutes)
AccessTokenLife == Minutes(AccessTokenMinutes)
RefreshTokenLife == Minutes(RefreshTokenDays * 24 * 60)
SessionLife == Minutes(SessionHours * 60)

Users == {"u1", "u2"}
Procs == {"p1", "p2"}

\* UserStatus
UserStatuses ==
    {"Active", "Inactive", "Suspended", "PendingVerification", "PasswordResetRequired"}

\* passwords a caller may type; validate_password_strength rejects the short one
Passwords == {"P1", "P2"}
WeakPasswords == {"short"}

\* the instants the clock shows in one behaviour: the start, half a second
\* later, the lock duration later, half a second short of an access token's life
Instants == {0, 1, LockTime, AccessTokenLife - 1}

\* offset, in minutes, of the server's local time zone from UTC:
\* datetime.fromtimestamp() yields local time, datetime.utcnow() UTC
\* (UTC, and a zone west of it)
TzOffsets == {-300, 0}

(* ------------------------------ values --------------------------------- *)

NoCode == [kind |-> "none", secret |-> "none", step |-> 0]
\* the 6-digit code pyotp derives from a secret and a 30-second time step
Totp(secret, step) == [kind |-> "totp", secret |-> secret, step |-> step]
BackupCode(name) == [kind |-> "backup", secret |-> name, step |-> 0]
BackupCodes == {BackupCode("B1"), BackupCode("B2")}

NoToken == [kind |-> "none", sub |-> "none", jti |-> 0, exp |-> 0, sig |-> FALSE]
\* a token that was not signed with the service's secret key
ForgedToken == [kind |-> "access", sub |-> "u1", jti |-> 1, exp |-> 1000000, sig |-> FALSE]

NoUser ==
    [status |-> "Inactive", failed |-> 0, locked_until |-> None, version |-> 0,
     pw |-> "none", tfa |-> FALSE, secret |-> "none", backup |-> {}, sessions |-> {},
     roles |-> {}, custom_roles |-> {}, permissions |-> {}, api_keys |-> {},
     client_id |-> "none"]

NoRequest ==
    [op |-> "none", user |-> "none", pw |-> "none", code |-> NoCode, sid |-> None,
     tok |-> NoToken, newpw |-> "none", key |-> "none", expires_at |-> None, n |-> 0]

\* no authorization decision yet
NoDecision ==
    [by |-> "none", user |-> "none", key |-> "none", rt |-> "none", pt |-> "none",
     rid |-> "none", at |-> 0, allowed |-> FALSE]

\* no API key in its plaintext
NoKey == "none"

NoResult ==
    [outcome |-> "none", msg |-> "", user |-> "none", sid |-> None,
     access |-> NoToken, refresh |-> NoToken, key |-> NoKey]

VARIABLES
    now,            \* datetime.utcnow(), in clock ticks
    ops,            \* use cases started so far; also the source of fresh ids
    frozen,         \* whether the installed pydantic enforces Config.frozen
    tz,             \* the server's time zone offset
    db,             \* users table: user id -> row
    sessionStore,   \* Redis keys session:<sid>
    refreshStore,   \* Redis keys refresh:<user>:<token>
    blacklist,      \* Redis keys blacklist:<jti>
    tokens,         \* tokens handed to callers
    pc, req, usr, after, res,    \* per handler: position, request, loaded aggregate, continuation, response
    attempts,       \* observer: wrong-password attempts each user's counter should show
    redemptions,    \* observer: successful refresh_token calls, by presented jti
    az,             \* the last authorization decision: who asked what, when, and the answer
    published       \* events handed to publish_event by the use cases of API keys,
                    \* two-factor enrolment and registration (those of the other use
                    \* cases are not followed)

vars == <<now, ops, frozen, tz, db, sessionStore, refreshStore, blacklist,
          tokens, pc, req, usr, after, res, attempts, redemptions, az, published>>

(* ------------------------- the User aggregate -------------------------- *)

\* User.verify_password: a user without a stored hash never verifies
verify_password(u, pw) == u.pw # "none" /\ u.pw = pw

\* User.is_locked
is_locked(u, t) == u.locked_until # None /\ u.locked_until > t

\* record_failed_login locking one failure late
record_failed_login_late(u, t) ==
    LET n == u.failed + 1
    IN  [u EXCEPT !.failed = n,
                  !.locked_until = IF n > MaxFailedAttempts THEN t + LockTime ELSE @,
                  !.status = IF n > MaxFailedAttempts THEN "Suspended" ELSE @,
                  !.version = @ + 1]

\* User.record_failed_login
record_failed_login(u, t) ==
    LET n == u.failed + 1
    IN  [u EXCEPT !.failed = n,
                  !.locked_until = IF n >= MaxFailedAttempts THEN t + LockTime ELSE @,
                  !.status = IF n >= MaxFailedAttempts THEN "Suspended" ELSE @,
                  !.version = @ + 1]

\* the statuses AuthenticationService.login lets through
LoginStatuses == {"Active", "PasswordResetRequired"}

\* login without its gates
login_gate_open(u, t) == "open"

\* the two gates of login before the password is looked at
login_gate(u, t) ==
    IF is_locked(u, t) THEN "locked"
    ELSE IF u.status \notin LoginStatuses THEN "inactive"
    ELSE "open"

\* User.create_session: the aggregate's part (the session, the counter, the version)
create_session(u, sid) ==
    [u EXCEPT !.sessions = @ \cup {[id |-> sid, status |-> "Active"]},
              !.failed = 0,
              !.version = @ + 1]

\* UserSession.revoke sets a field of a ValueObject, whose Config is frozen:
\* it raises where pydantic enforces the flag
revoke_raises == frozen

\* User.revoke_session raises iff it reaches session.revoke() and that raises
revoke_session_raises(u, sid) == revoke_raises /\ \E s \in u.sessions : s.id = sid

\* User.revoke_session: the version moves whether or not the id was found
revoke_session(u, sid) ==
    [u EXCEPT !.sessions = {IF s.id = sid THEN [s EXCEPT !.status = "Revoked"] ELSE s : s \in @},
              !.version = @ + 1]

revoke_all_sessions_raises(u) == revoke_raises /\ u.sessions # {}

\* User.revoke_all_sessions
revoke_all_sessions(u) ==
    [u EXCEPT !.sessions = {[s EXCEPT !.status = "Revoked"] : s \in @},
              !.version = @ + 1]

\* User.change_password
change_password(u, newpw) ==
    [u EXCEPT !.pw = newpw, !.failed = 0, !.locked_until = None, !.version = @ + 1]

\* the loop of AuthenticationService.change_password that keeps one session:
\* it revokes the others directly, without touching the version
revoke_others_raises(u, keep) == revoke_raises /\ \E s \in u.sessions : s.id # keep

revoke_others(u, keep) ==
    [u EXCEPT !.sessions = {IF s.id # keep THEN [s EXCEPT !.status = "Revoked"] ELSE s : s \in @}]

\* PasswordService.validate_password_strength, its is_valid
password_is_valid(pw) == pw \notin WeakPasswords

(* ----------------------------- authorization --------------------------- *)

\* resource_id = None: the permission, or the request, names no instance
NoId == "none"

\* a Permission, by the fields the checks read
Permission(rt, rid, pt, expires_at) ==
    [resource_type |-> rt, resource_id |-> rid, permission_type |-> pt,
     expires_at |-> expires_at]

\* Permission.is_expired that never expires
permission_is_expired_never(perm, t) == FALSE

\* Permission.is_expired
permission_is_expired(perm, t) == perm.expires_at # None /\ perm.expires_at < t

\* Permission.matches_resource
matches_resource(perm, rt, rid) ==
    IF perm.resource_type # rt THEN FALSE
    ELSE IF perm.resource_id = NoId THEN TRUE
    ELSE perm.resource_id = rid

\* the condition that has_permission and validate_api_key_permissions put on each
\* permission of the list they walk
permission_allows(perm, rt, pt, rid, t) ==
    /\ perm.permission_type = pt
    /\ matches_resource(perm, rt, rid)
    /\ ~permission_is_expired(perm, t)

\* Role.has_permission
role_has_permission(role, rt, pt, rid, t) ==
    \E perm \in role.permissions : permission_allows(perm, rt, pt, rid, t)

\* User.has_permission without the loop over the custom roles
has_permission_no_custom_roles(u, rt, pt, rid, t) ==
    IF \E perm \in u.permissions : permission_allows(perm, rt, pt, rid, t) THEN TRUE
    ELSE IF "SuperAdmin" \in u.roles THEN TRUE
    ELSE IF "Admin" \in u.roles /\ pt # "Delete" THEN TRUE
    ELSE FALSE

\* User.has_permission letting Admin delete
has_permission_admin_deletes(u, rt, pt, rid, t) ==
    IF \E perm \in u.permissions : permission_allows(perm, rt, pt, rid, t) THEN TRUE
    ELSE IF \E role \in u.custom_roles : role_has_permission(role, rt, pt, rid, t) THEN TRUE
    ELSE IF "SuperAdmin" \in u.roles THEN TRUE
    ELSE IF "Admin" \in u.roles THEN TRUE
    ELSE FALSE

\* User.has_permission
has_permission(u, rt, pt, rid, t) ==
    IF \E perm \in u.permissions : permission_allows(perm, rt, pt, rid, t) THEN TRUE
    ELSE IF \E role \in u.custom_roles : role_has_permission(role, rt, pt, rid, t) THEN TRUE
    ELSE IF "SuperAdmin" \in u.roles THEN TRUE
    ELSE IF "Admin" \in u.roles /\ pt # "Delete" THEN TRUE
    ELSE FALSE

\* the n-th key that secrets.token_urlsafe gives: f"aic_{...}"
generate_api_key(n) == "aic_" \o ToString(n)

\* a hash that keeps the key
hash_api_key_plain(key) == key

\* APIKeyService.hash_api_key: the SHA-256 digest, one per key and not a key
hash_api_key(key) == "sha256(" \o key \o ")"

\* APIKeyService.verify_api_key
verify_api_key(key, key_hash) == hash_api_key(key) = key_hash

\* an APIKey, by the fields that are read
APIKey(key_id, key_hash, permissions, expires_at) ==
    [key_id |-> key_id, key_hash |-> key_hash, permissions |-> permissions,
     expires_at |-> expires_at, is_active |-> TRUE]

\* APIKey.create for the n-th key: the model, and the actual key
APIKey_create(n, permissions, expires_at) ==
    [api_key |-> APIKey(ToString(n), hash_api_key(generate_api_key(n)), permissions,
                        expires_at),
     actual_key |-> generate_api_key(n)]

\* APIKey.is_expired
api_key_is_expired(key, t) == key.expires_at # None /\ key.expires_at < t

\* APIKey.is_valid
api_key_is_valid(key, t) == key.is_active /\ ~api_key_is_expired(key, t)

\* validate_api_key_permissions that is content with a valid key
validate_api_key_permissions_any(key, rt, pt, rid, t) == api_key_is_valid(key, t)

\* APIKeyService.validate_api_key_permissions
validate_api_key_permissions(key, rt, pt, rid, t) ==
    IF ~api_key_is_valid(key, t) THEN FALSE
    ELSE \E perm \in key.permissions : permission_allows(perm, rt, pt, rid, t)

\* User.create_api_key
create_api_key(u, key) == [u EXCEPT !.api_keys = @ \cup {key}, !.version = @ + 1]

\* User.revoke_api_key raises iff it finds the key: APIKey is a ValueObject too,
\* and api_key.is_active = False sets a field of it
revoke_api_key_raises(u, key_id) == revoke_raises /\ \E k \in u.api_keys : k.key_id = key_id

\* User.revoke_api_key: the version moves whether or not the id was found
revoke_api_key(u, key_id) ==
    [u EXCEPT !.api_keys = {IF k.key_id = key_id THEN [k EXCEPT !.is_active = FALSE] ELSE k
                                : k \in @},
              !.version = @ + 1]

(* ------------------------- two-factor service -------------------------- *)

TotpStep(t) == t \div (TotpIntervalSeconds * TicksPerSecond)

\* verify_totp_code taking any code
verify_totp_code_any(secret, code, t) == TRUE

\* TwoFactorService.verify_totp_code: pyotp with valid_window = 1
verify_totp_code(secret, code, t) ==
    \E d \in (0 - TotpValidWindow)..TotpValidWindow :
        code = Totp(secret, TotpStep(t) + d)

(* ---------------------------- token service ---------------------------- *)

\* jwt.encode writes a datetime claim as a timestamp in whole seconds
to_timestamp(t) == (t \div TicksPerSecond) * TicksPerSecond

\* JWTService.generate_access_token; n is the number of the issuing use case
generate_access_token(u, n, t) ==
    [kind |-> "access", sub |-> u, jti |-> 2 * n + 2,
     exp |-> to_timestamp(t + AccessTokenLife), sig |-> TRUE]

\* JWTService.generate_refresh_token
generate_refresh_token(u, n, t) ==
    [kind |-> "refresh", sub |-> u, jti |-> 2 * n + 3,
     exp |-> to_timestamp(t + RefreshTokenLife), sig |-> TRUE]

\* JWTService.decode_token succeeds: signed by the service and exp not reached
decode_ok(tok, t) == tok.sig /\ t < tok.exp

\* the payload that generate_access_token builds: the two datetimes are two
\* readings of the clock, the second one not before the first
access_token_payload(u, row, minutes, t_iat, t_exp, jti) ==
    [sub |-> u, type |-> "none", roles |-> row.roles, client_id |-> row.client_id,
     iat |-> t_iat, exp |-> t_exp + Minutes(minutes), jti |-> jti]

\* the payload that generate_refresh_token builds
refresh_token_payload(u, t_iat, t_exp, jti) ==
    [sub |-> u, type |-> "refresh", roles |-> {}, client_id |-> "none",
     iat |-> t_iat, exp |-> t_exp + RefreshTokenLife, jti |-> jti]

\* jwt.encode: the datetime claims become timestamps in whole seconds, and the
\* token is signed with the service's key
jwt_encode(payload) ==
    [sig |-> TRUE,
     payload |-> [payload EXCEPT !.iat = to_timestamp(@), !.exp = to_timestamp(@)]]

\* what decode_token gives for a token it does not accept
NoPayload ==
    [sub |-> "none", type |-> "none", roles |-> {}, client_id |-> "none",
     iat |-> 0, exp |-> 0, jti |-> 0]

\* JWTService.decode_token: the payload of a token signed by the service whose
\* exp is not reached
decode_token(tok, t) == IF tok.sig /\ t < tok.payload.exp THEN tok.payload ELSE NoPayload

(* ----------------------------- Redis stores ---------------------------- *)

\* ttl = int((expires_at - datetime.utcnow()).total_seconds()); EXPIRE is only
\* sent for a positive ttl, and the key then goes ttl whole seconds later
expire_at(expires_at, t) ==
    LET ttl == (expires_at - t) \div TicksPerSecond
    IN  IF ttl > 0 THEN t + ttl * TicksPerSecond ELSE None

\* a key is there until its TTL runs out
live(e, t) == e.ttl_at = None \/ t < e.ttl_at

\* RedisTokenRepository.is_token_blacklisted
is_token_blacklisted(jti) == \E e \in blacklist : e.jti = jti /\ live(e, now)

\* RedisTokenRepository.blacklist_token
blacklist_token(bl, jti, expires_at, t) ==
    {e \in bl : e.jti # jti} \cup {[jti |-> jti, ttl_at |-> expire_at(expires_at, t)]}

\* datetime.fromtimestamp(payload["exp"]) in logout: a local, not a UTC, datetime
local_datetime(exp) == exp + Minutes(tz)

\* RedisTokenRepository.store_refresh_token: the key refresh:<user>:<token_hash>,
\* token_hash being whatever the caller passes under that name
store_refresh_token(rs, u, token_hash, expires_at, t) ==
    {e \in rs : ~(e.user = u /\ e.token_hash = token_hash)}
        \cup {[user |-> u, token_hash |-> token_hash, ttl_at |-> expire_at(expires_at, t)]}

\* RedisTokenRepository.validate_refresh_token
validate_refresh_token(u, token_hash) ==
    \E e \in refreshStore : e.user = u /\ e.token_hash = token_hash /\ live(e, now)

\* a revocation that drops every refresh token of the user
revoke_refresh_token_of_user(rs, u, token_hash) ==
    {e \in rs : e.user # u}

\* RedisTokenRepository.revoke_refresh_token
revoke_refresh_token(rs, u, token_hash) ==
    {e \in rs : ~(e.user = u /\ e.token_hash = token_hash)}

\* RedisSessionRepository.create_session
store_session(ss, sid, u, expires_at, t) ==
    {e \in ss : e.sid # sid}
        \cup {[sid |-> sid, user |-> u, expires_at |-> expires_at,
               ttl_at |-> expire_at(expires_at, t)]}

\* RedisSessionRepository.update_session after its check that the key exists:
\* HSET writes the hash, making the key if it is not there, and EXPIRE is only
\* sent for a positive ttl, so that otherwise the key keeps the TTL it has
update_session(ss, sid, u, expires_at, t) ==
    LET old == {e \in ss : e.sid = sid /\ live(e, t)}
        ttl_at == IF expire_at(expires_at, t) # None \/ old = {}
                  THEN expire_at(expires_at, t)
                  ELSE (CHOOSE e \in old : TRUE).ttl_at
    IN  {e \in ss : e.sid # sid}
            \cup {[sid |-> sid, user |-> u, expires_at |-> expires_at, ttl_at |-> ttl_at]}

\* RedisSessionRepository.delete_session
delete_session(ss, sid) == {e \in ss : e.sid # sid}

\* SessionService.validate_session returns session data
validate_session(sid) ==
    \E e \in sessionStore : e.sid = sid /\ live(e, now) /\ ~(e.expires_at < now)

\* AuthenticationService.validate_token returns the payload
validate_token(tok) ==
    decode_ok(tok, now) /\ ~(tok.jti # 0 /\ is_token_blacklisted(tok.jti))

(* ---------------------------- the user store --------------------------- *)

\* PostgreSQLUserRepository.save, the check it makes on the version it read
save_accepts(existing_version, u) == existing_version = u.version - 1

(* ------------------------------ initial state -------------------------- *)

\* a registered, verified user: create (version 1), add_role, verify_email, and
\* one more version for enable_two_factor
registered(tfa) ==
    [status |-> "Active", failed |-> 0, locked_until |-> None,
     version |-> InitialVersion + 2 + (IF tfa THEN 1 ELSE 0),
     pw |-> "P1", tfa |-> tfa,
     secret |-> IF tfa THEN "S1" ELSE "none",
     backup |-> IF tfa THEN BackupCodes ELSE {},
     sessions |-> {},
     roles |-> {"TeamMember"}, custom_roles |-> {}, permissions |-> {}, api_keys |-> {},
     client_id |-> "none"]

\* wrong passwords in a row that u1 has already seen when the behaviour starts
InitFailed == {0, 4}

\* f failed logins in a row, none of them the locking one
failed_logins(u, f) == [u EXCEPT !.failed = @ + f, !.version = @ + f]

\* The behaviour starts at instant 0 with two registered users.  u1 may have
\* two-factor authentication on, may have logged in (use case 0: session 0 and
\* its two tokens) and may have typed a wrong password f times since.
Init ==
    /\ now = 0 /\ ops = 0
    /\ frozen \in BOOLEAN
    /\ tz \in TzOffsets
    /\ \E f \in InitFailed, tfa \in BOOLEAN, logged_in \in BOOLEAN :
        LET u0 == registered(tfa)
            u1 == IF logged_in THEN create_session(u0, 0) ELSE u0
            at == generate_access_token("u1", 0, 0)
            rt == generate_refresh_token("u1", 0, 0)
        IN  /\ db = [u \in Users |-> IF u = "u1" THEN failed_logins(u1, f)
                                     ELSE registered(FALSE)]
            /\ attempts = [u \in Users |-> IF u = "u1" THEN f ELSE 0]
            /\ sessionStore = IF logged_in
                              THEN store_session({}, 0, "u1", SessionLife, 0) ELSE {}
            /\ refreshStore = IF logged_in
                              THEN store_refresh_token({}, "u1", rt, RefreshTokenLife, 0)
                              ELSE {}
            /\ tokens = IF logged_in THEN {at, rt} ELSE {}
    /\ blacklist = {}
    /\ pc = [p \in Procs |-> "idle"]
    /\ req = [p \in Procs |-> NoRequest]
    /\ usr = [p \in Procs |-> NoUser]
    /\ after = [p \in Procs |-> "none"]
    /\ res = [p \in Procs |-> NoResult]
    /\ redemptions = {}
    /\ az = NoDecision
    /\ published = {}

(* ------------------------------- handlers ------------------------------ *)

Proceed(p, newpc, r, u, a, rs) ==
    /\ pc' = [pc EXCEPT ![p] = newpc]
    /\ req' = [req EXCEPT ![p] = r]
    /\ usr' = [usr EXCEPT ![p] = u]
    /\ after' = [after EXCEPT ![p] = a]
    /\ res' = [res EXCEPT ![p] = rs]

\* the use case raises: nothing of the handler's is written any more
Raise(p, r, u, msg) ==
    Proceed(p, "done", r, u, "none", [NoResult EXCEPT !.outcome = "error", !.msg = msg])

NewRequest(op) == [NoRequest EXCEPT !.op = op, !.n = ops + 1]

\* a request is taken by a free handler; handlers are interchangeable, so the
\* second one is taken only while the first is busy
MayStart(p) == pc[p] = "idle" /\ ops < MaxOps /\ (p = "p1" \/ pc["p1"] # "idle")

\* the codes a caller may send with a login
LoginCodes(u) ==
    IF db[u].tfa
    THEN {NoCode, Totp(db[u].secret, TotpStep(now)), Totp(db[u].secret, TotpStep(now) - 2)}
             \cup BackupCodes
    ELSE {NoCode}

\* login from "Create session" to "Store refresh token"
LoginIssue(p, r, u) ==
    LET at == generate_access_token(r.user, r.n, now)
        rt == generate_refresh_token(r.user, r.n, now)
    IN  /\ sessionStore' = store_session(sessionStore, r.n, r.user, now + SessionLife, now)
        /\ refreshStore' = store_refresh_token(refreshStore, r.user, rt,
                                               now + RefreshTokenLife, now)
        /\ Proceed(p, "save_select", r, create_session(u, r.n), "return",
                   [NoResult EXCEPT !.sid = r.n, !.access = at, !.refresh = rt])

\* AuthenticationService.login up to its first save
Login(p) ==
    /\ MayStart(p)
    /\ \E u \in Users, pw \in Passwords : \E code \in LoginCodes(u) :
        LET r == [NewRequest("login") EXCEPT !.user = u, !.pw = pw, !.code = code]
            row == db[u]
        IN  /\ ops' = ops + 1
            /\ IF login_gate(row, now) = "locked"
               THEN /\ Raise(p, r, row, "Account is temporarily locked due to failed login attempts")
                    /\ UNCHANGED <<sessionStore, refreshStore>>
               ELSE IF login_gate(row, now) = "inactive"
               THEN /\ Raise(p, r, row, "Account is not active")
                    /\ UNCHANGED <<sessionStore, refreshStore>>
               ELSE IF ~verify_password(row, pw)
               THEN /\ Proceed(p, "save_select", r, record_failed_login(row, now),
                               "raise_invalid_credentials", NoResult)
                    /\ UNCHANGED <<sessionStore, refreshStore>>
               ELSE IF row.tfa /\ code = NoCode
               THEN /\ Proceed(p, "done", r, row, "none",
                               [NoResult EXCEPT !.outcome = "requires_2fa", !.user = u])
                    /\ UNCHANGED <<sessionStore, refreshStore>>
               ELSE IF row.tfa /\ ~verify_totp_code(row.secret, code, now) /\ code \notin row.backup
               THEN /\ Raise(p, r, row, "Invalid two-factor authentication code")
                    /\ UNCHANGED <<sessionStore, refreshStore>>
               ELSE IF row.tfa /\ ~verify_totp_code(row.secret, code, now)
               THEN /\ Proceed(p, "save_select", r, [row EXCEPT !.backup = @ \ {code}],
                               "issue", NoResult)
                    /\ UNCHANGED <<sessionStore, refreshStore>>
               ELSE LoginIssue(p, r, row)
    /\ UNCHANGED <<published, az, now, frozen, tz, db, blacklist, tokens, attempts, redemptions>>

\* PostgreSQLUserRepository.save: SELECT version, and the comparison
SaveSelect(p) ==
    /\ pc[p] = "save_select"
    /\ IF save_accepts(db[req[p].user].version, usr[p])
       THEN /\ pc' = [pc EXCEPT ![p] = "save_update"]
            /\ UNCHANGED <<res, after, attempts>>
       ELSE /\ pc' = [pc EXCEPT ![p] = "done"]
            /\ after' = [after EXCEPT ![p] = "none"]
            /\ res' = [res EXCEPT ![p] = [NoResult EXCEPT !.outcome = "error",
                                                          !.msg = "Optimistic locking violation"]]
            /\ attempts' = IF after[p] = "raise_invalid_credentials"
                           THEN [attempts EXCEPT ![req[p].user] = @ + 1]
                           ELSE attempts
    /\ UNCHANGED <<published, az, now, ops, frozen, tz, db, sessionStore, refreshStore, blacklist,
                   tokens, req, usr, redemptions>>

\* what the observer expects of the counter once this row is written
Expected(p) ==
    IF after[p] = "raise_invalid_credentials" THEN attempts[req[p].user] + 1
    ELSE IF after[p] = "return" /\ req[p].op \in {"login", "change_password"} THEN 0
    ELSE attempts[req[p].user]

\* the name that callers give their API keys
KeyName == "ci"

\* the domain events that the aggregate of handler p has recorded, for the use
\* cases whose events are followed
Pending(p) ==
    LET event(kind, key_id, name) ==
            [kind |-> kind, user |-> req[p].user, key_id |-> key_id, name |-> name]
    IN  IF req[p].op = "create_api_key" THEN {event("APIKeyCreated", req[p].key, KeyName)}
        ELSE IF req[p].op = "revoke_api_key" THEN {event("APIKeyRevoked", req[p].key, "none")}
        ELSE IF req[p].op = "enable_two_factor" THEN {event("UserTwoFactorEnabled", "none", "none")}
        ELSE IF req[p].op = "verify_email" THEN {event("UserEmailVerified", "none", "none")}
        ELSE {}

\* PostgreSQLUserRepository.save: UPDATE users SET ... WHERE id = $1, and what the
\* use case does once save has returned: raise (a failed login), go on to create
\* the session (a login with a backup code), or publish the events and answer
SaveUpdate(p) ==
    /\ pc[p] = "save_update"
    /\ db' = [db EXCEPT ![req[p].user] = usr[p]]
    /\ attempts' = [attempts EXCEPT ![req[p].user] = Expected(p)]
    /\ IF after[p] = "raise_invalid_credentials"
       THEN /\ Raise(p, req[p], usr[p], "Invalid credentials")
            /\ UNCHANGED <<tokens, sessionStore, refreshStore>>
       ELSE IF after[p] = "issue"
       THEN /\ LoginIssue(p, req[p], usr[p])
            /\ UNCHANGED tokens
       ELSE /\ Proceed(p, "done", req[p], usr[p], "none", [res[p] EXCEPT !.outcome = "ok"])
            /\ tokens' = tokens \cup ({res[p].access, res[p].refresh} \ {NoToken})
            /\ UNCHANGED <<sessionStore, refreshStore>>
    /\ published' = IF after[p] = "return" THEN published \cup Pending(p) ELSE published
    /\ UNCHANGED <<az, now, ops, frozen, tz, blacklist, redemptions>>

\* AuthenticationService.refresh_token up to validate_refresh_token
RefreshToken(p) ==
    /\ MayStart(p)
    /\ \E tok \in tokens \cup {ForgedToken} :
        LET r == [NewRequest("refresh_token") EXCEPT !.user = tok.sub, !.tok = tok]
        IN  /\ ops' = ops + 1
            /\ IF ~decode_ok(tok, now)
               THEN Raise(p, r, NoUser, "Invalid refresh token")
               ELSE IF tok.kind # "refresh"
               THEN Raise(p, r, NoUser, "Invalid token type")
               ELSE IF ~validate_refresh_token(tok.sub, tok)
               THEN Raise(p, r, db[tok.sub], "Invalid refresh token")
               ELSE Proceed(p, "rotate", r, db[tok.sub], "none", NoResult)
    /\ UNCHANGED <<published, az, now, frozen, tz, db, sessionStore, refreshStore, blacklist,
                   tokens, attempts, redemptions>>

\* refresh_token from "Generate new tokens" to its return
RefreshRotate(p) ==
    /\ pc[p] = "rotate"
    /\ LET r == req[p]
           at == generate_access_token(r.user, r.n, now)
           rt == generate_refresh_token(r.user, r.n, now)
       IN  /\ refreshStore' = store_refresh_token(
                                  revoke_refresh_token(refreshStore, r.user, r.tok),
                                  r.user, rt, now + RefreshTokenLife, now)
           /\ tokens' = tokens \cup {at, rt}
           /\ redemptions' = redemptions \cup {[jti |-> r.tok.jti, n |-> r.n]}
           /\ pc' = [pc EXCEPT ![p] = "done"]
           /\ res' = [res EXCEPT ![p] = [NoResult EXCEPT !.outcome = "ok", !.access = at,
                                                         !.refresh = rt]]
    /\ UNCHANGED <<published, az, now, ops, frozen, tz, db, sessionStore, blacklist, req, usr,
                   after, attempts>>

\* the session ids a caller may name
KnownSessions == {e.sid : e \in sessionStore}

\* AuthenticationService.logout up to its save
Logout(p) ==
    /\ MayStart(p)
    /\ \E u \in Users, sid \in {None} \cup KnownSessions, tok \in {NoToken} \cup tokens :
        LET r == [NewRequest("logout") EXCEPT !.user = u, !.sid = sid, !.tok = tok]
            row == db[u]
        IN  /\ ops' = ops + 1
            /\ IF sid # None /\ revoke_session_raises(row, sid)
               THEN /\ Raise(p, r, row, "TypeError")
                    /\ UNCHANGED <<sessionStore, blacklist>>
               ELSE /\ sessionStore' = IF sid # None THEN delete_session(sessionStore, sid)
                                       ELSE sessionStore
                    /\ blacklist' = IF tok # NoToken /\ decode_ok(tok, now)
                                    THEN blacklist_token(blacklist, tok.jti,
                                                         local_datetime(tok.exp), now)
                                    ELSE blacklist
                    /\ Proceed(p, "save_select", r,
                               IF sid # None THEN revoke_session(row, sid) ELSE row,
                               "return", NoResult)
    /\ UNCHANGED <<published, az, now, frozen, tz, db, refreshStore, tokens, attempts, redemptions>>

\* AuthenticationService.change_password up to its save; sid is the session to
\* keep (keep_current_session and current_session_id), None for the default request
ChangePassword(p) ==
    /\ MayStart(p)
    /\ \E u \in Users, pw \in Passwords, newpw \in Passwords \cup WeakPasswords,
          sid \in {None} \cup KnownSessions :
        LET r == [NewRequest("change_password") EXCEPT !.user = u, !.pw = pw,
                                                       !.newpw = newpw, !.sid = sid]
            row == db[u]
            changed == change_password(row, newpw)
        IN  /\ ops' = ops + 1
            /\ IF ~verify_password(row, pw)
               THEN Raise(p, r, row, "Current password is incorrect")
               ELSE IF ~password_is_valid(newpw)
               THEN Raise(p, r, row, "Password validation failed")
               ELSE IF sid # None
               THEN IF revoke_others_raises(changed, sid)
                    THEN Raise(p, r, row, "TypeError")
                    ELSE Proceed(p, "save_select", r, revoke_others(changed, sid),
                                 "return", NoResult)
               ELSE IF revoke_all_sessions_raises(changed)
                    THEN Raise(p, r, row, "TypeError")
                    ELSE Proceed(p, "save_select", r, revoke_all_sessions(changed),
                                 "return", NoResult)
    /\ UNCHANGED <<published, az, now, frozen, tz, db, sessionStore, refreshStore, blacklist,
                   tokens, attempts, redemptions>>

\* the handler has answered; the next request may come
Return(p) ==
    /\ pc[p] = "done"
    /\ Proceed(p, "idle", NoRequest, NoUser, "none", NoResult)
    /\ UNCHANGED <<published, az, now, ops, frozen, tz, db, sessionStore, refreshStore, blacklist,
                   tokens, attempts, redemptions>>

\* time passes
Tick ==
    /\ \E t \in Instants : t > now /\ now' = t
    /\ UNCHANGED <<published, az, ops, frozen, tz, db, sessionStore, refreshStore, blacklist, tokens,
                   pc, req, usr, after, res, attempts, redemptions>>

Next ==
    \/ \E p \in Procs : Login(p)
    \/ \E p \in Procs : SaveSelect(p)
    \/ \E p \in Procs : SaveUpdate(p)
    \/ \E p \in Procs : RefreshToken(p)
    \/ \E p \in Procs : RefreshRotate(p)
    \/ \E p \in Procs : Logout(p)
    \/ \E p \in Procs : ChangePassword(p)
    \/ \E p \in Procs : Return(p)
    \/ Tick

Spec == Init /\ [][Next]_vars

\* one handler: the use cases run one after the other
NextSeq ==
    \/ Login("p1")
    \/ SaveSelect("p1")
    \/ SaveUpdate("p1")
    \/ RefreshToken("p1")
    \/ RefreshRotate("p1")
    \/ Logout("p1")
    \/ ChangePassword("p1")
    \/ Return("p1")
    \/ Tick

SpecSeq == Init /\ [][NextSeq]_vars

\* logins only, from both handlers, all of them against u1
LoginU1(p) == Login(p) /\ req'[p].user = "u1"

NextLogin ==
    \/ \E p \in Procs : LoginU1(p)
    \/ \E p \in Procs : SaveSelect(p)
    \/ \E p \in Procs : SaveUpdate(p)
    \/ \E p \in Procs : Return(p)
    \/ Tick

SpecLogin == Init /\ [][NextLogin]_vars

(* --------------------------- permission checks ------------------------- *)

\* the requests a caller may make
AzResourceTypes == {"Project", "Client"}
AzPermissionTypes == {"Read", "Delete", "Execute"}
AzResourceIds == {NoId, "proj-1", "proj-2"}

\* the grants an administrator may have made; one that expires does so at instant 1
Grants ==
    {Permission("Project", NoId, "Read", None),
     Permission("Project", NoId, "Read", 1),
     Permission("Project", "proj-1", "Delete", None),
     Permission("Project", "proj-1", "Delete", 1),
     Permission("Client", NoId, "Delete", None)}

\* the system roles given on top of the one of registration
RoleSets == {{}, {"Admin"}, {"SuperAdmin"}, {"Admin", "SuperAdmin"}}

\* the custom roles a user may hold: none, or one role of at most one permission
CustomRoleSets ==
    {{}} \cup {{[name |-> "auditor", permissions |-> ps]} : ps \in {{}} \cup {{g} : g \in Grants}}

\* the user after add_role for each role and add_permission for each permission,
\* holding the custom roles given
authorized(u, roles, custom_roles, perms) ==
    [u EXCEPT !.roles = @ \cup roles,
              !.custom_roles = custom_roles,
              !.permissions = perms,
              !.version = @ + Cardinality(roles \ u.roles) + Cardinality(perms)]

\* the permission lists a user may hold or an API key may be created with: empty,
\* or one grant; and the expires_at of a key
KeyGrants == {{}} \cup {{g} : g \in Grants}
KeyExpiries == {None, 1}

\* the permission lists of the API key that u2 holds while u1's grants vary
AzKeyGrants ==
    {{}, {Permission("Project", NoId, "Read", 1)},
     {Permission("Project", "proj-1", "Delete", None)}}

\* Two registered users, nobody logged in; u1 holds some system roles, at most one
\* custom role and at most one direct permission; u2 has created an API key that
\* does not expire.  No permission check reads the time zone or assigns a field
\* of a value object.
InitAuthz ==
    /\ now = 0 /\ ops = 0
    /\ frozen = TRUE
    /\ tz = 0
    /\ \E roles \in RoleSets, custom_roles \in CustomRoleSets, perms \in KeyGrants,
          kperms \in AzKeyGrants :
        db = [u \in Users |-> IF u = "u1"
                              THEN authorized(registered(FALSE), roles, custom_roles, perms)
                              ELSE create_api_key(registered(FALSE),
                                                  APIKey("k1", hash_api_key(generate_api_key(0)), kperms, None))]
    /\ attempts = [u \in Users |-> 0]
    /\ sessionStore = {} /\ refreshStore = {} /\ tokens = {} /\ blacklist = {}
    /\ pc = [p \in Procs |-> "idle"]
    /\ req = [p \in Procs |-> NoRequest]
    /\ usr = [p \in Procs |-> NoUser]
    /\ after = [p \in Procs |-> "none"]
    /\ res = [p \in Procs |-> NoResult]
    /\ redemptions = {}
    /\ az = NoDecision
    /\ published = {}

\* AuthorizationService.check_permission: get_by_id, then User.has_permission
CheckPermission ==
    /\ \E u \in Users, rt \in AzResourceTypes, pt \in AzPermissionTypes, rid \in AzResourceIds :
        az' = [by |-> "user", user |-> u, key |-> "none", rt |-> rt, pt |-> pt, rid |-> rid,
               at |-> now, allowed |-> has_permission(db[u], rt, pt, rid, now)]
    /\ UNCHANGED <<published, now, ops, frozen, tz, db, sessionStore, refreshStore, blacklist, tokens,
                   pc, req, usr, after, res, attempts, redemptions>>

\* APIKeyService.validate_api_key_permissions on a key as the store holds it
ValidateApiKey ==
    /\ \E u \in Users : \E key \in db[u].api_keys :
       \E rt \in AzResourceTypes, pt \in AzPermissionTypes, rid \in AzResourceIds :
        az' = [by |-> "key", user |-> u, key |-> key.key_id, rt |-> rt, pt |-> pt,
               rid |-> rid, at |-> now,
               allowed |-> validate_api_key_permissions(key, rt, pt, rid, now)]
    /\ UNCHANGED <<published, now, ops, frozen, tz, db, sessionStore, refreshStore, blacklist, tokens,
                   pc, req, usr, after, res, attempts, redemptions>>

NextAuthz ==
    \/ CheckPermission
    \/ ValidateApiKey
    \/ Tick

SpecAuthz == InitAuthz /\ [][NextAuthz]_vars

(* ------------------------------ client data --------------------------- *)

\* the clients whose data is asked for
DataClients == {"c1", "c2"}

\* the grants that bear on client data; one that expires does so at instant 1
ClientGrants ==
    {Permission("Client", "c1", "Read", None),
     Permission("Client", "c2", "Read", 1),
     Permission("Client", NoId, "Read", None),
     Permission("Client", "c2", "Delete", None),
     Permission("System", NoId, "Admin", None),
     Permission("Project", NoId, "Read", None)}

\* AuthorizationService.can_access_client_data
can_access_client_data(u, client_id, t) ==
    IF has_permission(u, "System", "Admin", NoId, t) THEN TRUE
    ELSE IF u.client_id = client_id THEN TRUE
    ELSE has_permission(u, "Client", "Read", client_id, t)

\* Two registered users; u1 belongs to a client or to none and holds some system
\* roles, at most one custom role and at most one direct permission.
InitClientData ==
    /\ now = 0 /\ ops = 0
    /\ frozen = TRUE
    /\ tz = 0
    /\ \E roles \in RoleSets, home \in {"none", "c1"},
          role_perms \in {{}} \cup {{g} : g \in ClientGrants},
          perms \in {{}} \cup {{g} : g \in ClientGrants} :
        db = [u \in Users |->
                IF u = "u1"
                THEN [authorized(registered(FALSE), roles,
                                 IF role_perms = {} THEN {}
                                 ELSE {[name |-> "auditor", permissions |-> role_perms]},
                                 perms)
                         EXCEPT !.client_id = home]
                ELSE registered(FALSE)]
    /\ attempts = [u \in Users |-> 0]
    /\ sessionStore = {} /\ refreshStore = {} /\ tokens = {} /\ blacklist = {}
    /\ pc = [p \in Procs |-> "idle"]
    /\ req = [p \in Procs |-> NoRequest]
    /\ usr = [p \in Procs |-> NoUser]
    /\ after = [p \in Procs |-> "none"]
    /\ res = [p \in Procs |-> NoResult]
    /\ redemptions = {}
    /\ az = NoDecision
    /\ published = {}

\* a caller asks can_access_client_data for a user as the store holds it
CanAccessClientData ==
    /\ \E u \in Users, c \in DataClients :
        az' = [by |-> "client_data", user |-> u, key |-> "none", rt |-> "Client",
               pt |-> "Read", rid |-> c, at |-> now,
               allowed |-> can_access_client_data(db[u], c, now)]
    /\ UNCHANGED <<published, now, ops, frozen, tz, db, sessionStore, refreshStore, blacklist, tokens,
                   pc, req, usr, after, res, attempts, redemptions>>

NextClientData ==
    \/ CanAccessClientData
    \/ Tick

SpecClientData == InitClientData /\ [][NextClientData]_vars

(* ------------------------------- API keys ------------------------------ *)

\* the key ids a caller may name: the one that exists and one that does not
KeyIds == {"k1", "k9"}

\* what the owner of the key may hold besides it: nothing, SuperAdmin, Admin
\* with a direct permission, or a custom role
OwnerHoldings ==
    {[roles |-> {}, custom_roles |-> {}, permissions |-> {}],
     [roles |-> {"SuperAdmin"}, custom_roles |-> {}, permissions |-> {}],
     [roles |-> {"Admin"}, custom_roles |-> {},
      permissions |-> {Permission("Project", NoId, "Read", None)}],
     [roles |-> {},
      custom_roles |-> {[name |-> "auditor",
                         permissions |-> {Permission("Project", "proj-1", "Delete", None)}]},
      permissions |-> {}]}

\* the permission lists of the owner's key
OwnedKeyGrants ==
    {{}, {Permission("Project", NoId, "Read", None)},
     {Permission("Project", "proj-1", "Delete", 1)}}

\* Two registered users, nobody logged in; u1 has created the API key k1.
InitKeys ==
    /\ now = 0 /\ ops = 0
    /\ frozen \in BOOLEAN
    /\ tz = 0
    /\ \E h \in OwnerHoldings, kperms \in OwnedKeyGrants, kexp \in KeyExpiries :
        db = [u \in Users |-> IF u = "u1"
                              THEN create_api_key(
                                       authorized(registered(FALSE), h.roles, h.custom_roles,
                                                  h.permissions),
                                       APIKey("k1", hash_api_key(generate_api_key(0)), kperms, kexp))
                              ELSE registered(FALSE)]
    /\ attempts = [u \in Users |-> 0]
    /\ sessionStore = {} /\ refreshStore = {} /\ tokens = {} /\ blacklist = {}
    /\ pc = [p \in Procs |-> "idle"]
    /\ req = [p \in Procs |-> NoRequest]
    /\ usr = [p \in Procs |-> NoUser]
    /\ after = [p \in Procs |-> "none"]
    /\ res = [p \in Procs |-> NoResult]
    /\ redemptions = {}
    /\ az = NoDecision
    /\ published = {}

\* AuthenticationService.revoke_api_key up to its save, for a user who has keys
RevokeApiKey(p) ==
    /\ MayStart(p)
    /\ \E u \in {v \in Users : db[v].api_keys # {}}, key_id \in KeyIds :
        LET r == [NewRequest("revoke_api_key") EXCEPT !.user = u, !.key = key_id]
            row == db[u]
        IN  /\ ops' = ops + 1
            /\ IF revoke_api_key_raises(row, key_id)
               THEN Raise(p, r, row, "TypeError")
               ELSE Proceed(p, "save_select", r, revoke_api_key(row, key_id), "return", NoResult)
    /\ UNCHANGED <<published, az, now, frozen, tz, db, sessionStore, refreshStore, blacklist,
                   tokens, attempts, redemptions>>

\* the requests to revoke come one after the other
NextKeys ==
    \/ ValidateApiKey
    \/ RevokeApiKey("p1")
    \/ SaveSelect("p1")
    \/ SaveUpdate("p1")
    \/ Return("p1")
    \/ Tick

SpecKeys == InitKeys /\ [][NextKeys]_vars

(* ------------------------------ soft delete ---------------------------- *)

\* PostgreSQLUserRepository.delete: one UPDATE that sets the status and leaves
\* the version as it is
Delete(u) ==
    /\ db' = [db EXCEPT ![u].status = "Inactive"]
    /\ UNCHANGED <<published, az, now, ops, frozen, tz, sessionStore, refreshStore, blacklist, tokens,
                   pc, req, usr, after, res, attempts, redemptions>>

\* logins against u1 from both handlers, while an administrator may delete u1
NextDelete ==
    \/ \E p \in Procs : LoginU1(p)
    \/ \E p \in Procs : SaveSelect(p)
    \/ \E p \in Procs : SaveUpdate(p)
    \/ \E p \in Procs : Return(p)
    \/ Delete("u1")
    \/ Tick

SpecDelete == Init /\ [][NextDelete]_vars

(* ------------------------------- sessions ------------------------------ *)

\* the sessions that exist when the behaviour starts
IssuedSessions == {0}

\* the instants at which the issued session expires
SessionExpiries == {1, LockTime, SessionLife}

\* Two registered users; u1 logged in SessionLife before the session expires.
InitSessions ==
    /\ now = 0 /\ ops = 0
    /\ frozen = TRUE
    /\ tz = 0
    /\ db = [u \in Users |-> IF u = "u1" THEN create_session(registered(FALSE), 0)
                             ELSE registered(FALSE)]
    /\ \E e \in SessionExpiries :
        sessionStore = store_session({}, 0, "u1", e, e - SessionLife)
    /\ attempts = [u \in Users |-> 0]
    /\ refreshStore = {} /\ tokens = {} /\ blacklist = {}
    /\ pc = [p \in Procs |-> "idle"]
    /\ req = [p \in Procs |-> NoRequest]
    /\ usr = [p \in Procs |-> NoUser]
    /\ after = [p \in Procs |-> "none"]
    /\ res = [p \in Procs |-> NoResult]
    /\ redemptions = {}
    /\ az = NoDecision
    /\ published = {}

\* RedisSessionRepository.get_session
get_session(sid) == {e \in sessionStore : e.sid = sid /\ live(e, now)}

\* SessionService.validate_session: the data of a session that is there and has
\* not expired; one that is there and has expired is deleted
ValidateSession(p) ==
    /\ MayStart(p)
    /\ \E sid \in IssuedSessions :
        LET r == [NewRequest("validate_session") EXCEPT !.sid = sid]
            expired == \E e \in get_session(sid) : e.expires_at < now
        IN  /\ ops' = ops + 1
            /\ sessionStore' = IF expired THEN delete_session(sessionStore, sid)
                               ELSE sessionStore
            /\ Proceed(p, "done", r, NoUser, "none",
                       [NoResult EXCEPT !.outcome = IF validate_session(sid) THEN "ok"
                                                    ELSE "none",
                                        !.sid = sid])
    /\ UNCHANGED <<published, az, now, frozen, tz, db, refreshStore, blacklist, tokens, attempts,
                   redemptions>>

\* SessionService.extend_session up to update_session: get_session, and the new
\* expires_at
ExtendSession(p) ==
    /\ MayStart(p)
    /\ \E sid \in IssuedSessions :
        LET r == [NewRequest("extend_session") EXCEPT !.sid = sid]
        IN  /\ ops' = ops + 1
            /\ IF get_session(sid) = {}
               THEN Proceed(p, "done", r, NoUser, "none",
                            [NoResult EXCEPT !.outcome = "none", !.sid = sid])
               ELSE Proceed(p, "update_exists",
                            [r EXCEPT !.user = (CHOOSE e \in get_session(sid) : TRUE).user,
                                      !.expires_at = now + SessionLife],
                            NoUser, "none", NoResult)
    /\ UNCHANGED <<published, az, now, frozen, tz, db, sessionStore, refreshStore, blacklist, tokens,
                   attempts, redemptions>>

\* RedisSessionRepository.update_session: EXISTS
UpdateExists(p) ==
    /\ pc[p] = "update_exists"
    /\ IF get_session(req[p].sid) = {}
       THEN /\ pc' = [pc EXCEPT ![p] = "done"]
            /\ res' = [res EXCEPT ![p] = [NoResult EXCEPT !.outcome = "none",
                                                          !.sid = req[p].sid]]
       ELSE /\ pc' = [pc EXCEPT ![p] = "update_hset"]
            /\ UNCHANGED res
    /\ UNCHANGED <<published, az, now, ops, frozen, tz, db, sessionStore, refreshStore, blacklist,
                   tokens, req, usr, after, attempts, redemptions>>

\* RedisSessionRepository.update_session: HSET and EXPIRE
UpdateHset(p) ==
    /\ pc[p] = "update_hset"
    /\ sessionStore' = update_session(sessionStore, req[p].sid, req[p].user,
                                      req[p].expires_at, now)
    /\ pc' = [pc EXCEPT ![p] = "done"]
    /\ res' = [res EXCEPT ![p] = [NoResult EXCEPT !.outcome = "ok", !.sid = req[p].sid]]
    /\ UNCHANGED <<published, az, now, ops, frozen, tz, db, refreshStore, blacklist, tokens, req, usr,
                   after, attempts, redemptions>>

\* SessionService.revoke_session
RevokeSession(p) ==
    /\ MayStart(p)
    /\ \E sid \in IssuedSessions :
        LET r == [NewRequest("revoke_session") EXCEPT !.sid = sid]
        IN  /\ ops' = ops + 1
            /\ sessionStore' = delete_session(sessionStore, sid)
            /\ Proceed(p, "done", r, NoUser, "none",
                       [NoResult EXCEPT !.outcome = IF get_session(sid) # {} THEN "ok"
                                                    ELSE "none",
                                        !.sid = sid])
    /\ UNCHANGED <<published, az, now, frozen, tz, db, refreshStore, blacklist, tokens, attempts,
                   redemptions>>

NextSessions ==
    \/ \E p \in Procs : ValidateSession(p)
    \/ \E p \in Procs : ExtendSession(p)
    \/ \E p \in Procs : UpdateExists(p)
    \/ \E p \in Procs : UpdateHset(p)
    \/ \E p \in Procs : RevokeSession(p)
    \/ \E p \in Procs : Return(p)
    \/ Tick

SpecSessions == InitSessions /\ [][NextSessions]_vars

(* ----------------------------- token issue ----------------------------- *)

\* the expires_in_minutes a caller of generate_access_token may ask for
TokenMinutes == {1, AccessTokenMinutes}

\* the time that may pass between the two readings of the clock in one call
ClockSteps == {0, 1}

\* Two registered users of different roles and clients; no token issued yet.
InitTokens ==
    /\ ops = 0
    /\ now \in {0, 1}
    /\ frozen = TRUE
    /\ tz = 0
    /\ db = [u \in Users |->
                IF u = "u1" THEN registered(FALSE)
                ELSE [authorized(registered(FALSE), {"Admin"}, {}, {})
                         EXCEPT !.client_id = "c1"]]
    /\ attempts = [u \in Users |-> 0]
    /\ sessionStore = {} /\ refreshStore = {} /\ tokens = {} /\ blacklist = {}
    /\ pc = [p \in Procs |-> "idle"]
    /\ req = [p \in Procs |-> NoRequest]
    /\ usr = [p \in Procs |-> NoUser]
    /\ after = [p \in Procs |-> "none"]
    /\ res = [p \in Procs |-> NoResult]
    /\ redemptions = {}
    /\ az = NoDecision
    /\ published = {}

\* JWTService.generate_access_token; the token is kept with what was asked for
GenerateAccessToken ==
    /\ ops < MaxOps
    /\ \E u \in Users, minutes \in TokenMinutes, d \in ClockSteps :
        /\ now' = now + d
        /\ tokens' = tokens \cup
              {[kind |-> "access", user |-> u, minutes |-> minutes,
                jwt |-> jwt_encode(access_token_payload(u, db[u], minutes, now, now + d,
                                                        2 * ops + 2))]}
    /\ ops' = ops + 1
    /\ UNCHANGED <<published, az, frozen, tz, db, sessionStore, refreshStore, blacklist, pc, req, usr,
                   after, res, attempts, redemptions>>

\* JWTService.generate_refresh_token
GenerateRefreshToken ==
    /\ ops < MaxOps
    /\ \E u \in Users, d \in ClockSteps :
        /\ now' = now + d
        /\ tokens' = tokens \cup
              {[kind |-> "refresh", user |-> u, minutes |-> RefreshTokenDays * 24 * 60,
                jwt |-> jwt_encode(refresh_token_payload(u, now, now + d, 2 * ops + 3))]}
    /\ ops' = ops + 1
    /\ UNCHANGED <<published, az, frozen, tz, db, sessionStore, refreshStore, blacklist, pc, req, usr,
                   after, res, attempts, redemptions>>

NextTokens ==
    \/ GenerateAccessToken
    \/ GenerateRefreshToken
    \/ Tick

SpecTokens == InitTokens /\ [][NextTokens]_vars

(* ------------------------- roles and permissions ----------------------- *)

\* the roles a caller may name
GrantableRoles == {"TeamMember", "Admin", "SuperAdmin"}

\* AggregateRoot.add_domain_event on an aggregate in hand
add_domain_event(u, event) == [u EXCEPT !.domain_events = Append(@, event)]

\* User.add_role: nothing happens, not even to the version, if the role is held
add_role(u, role) ==
    IF role \in u.roles THEN u
    ELSE add_domain_event([u EXCEPT !.roles = @ \cup {role}, !.version = @ + 1],
                          [kind |-> "UserRoleAdded", role |-> role])

\* User.remove_role: nothing happens if the role is not held
remove_role(u, role) ==
    IF role \notin u.roles THEN u
    ELSE add_domain_event([u EXCEPT !.roles = @ \ {role}, !.version = @ + 1],
                          [kind |-> "UserRoleRemoved", role |-> role])

\* User.add_permission: the permission is appended and the version moves, whether
\* or not the list already has the permission; no event is recorded
add_permission(u, perm) ==
    [u EXCEPT !.permissions = @ \cup {perm}, !.version = @ + 1]

\* a user as get_by_id returns it: the row, and no pending domain events
loaded(row) == row @@ [domain_events |-> <<>>]

\* Two registered users; a caller holds u1, loaded from the store, with some
\* system roles.
InitRoles ==
    /\ now = 0 /\ ops = 0
    /\ frozen = TRUE
    /\ tz = 0
    /\ \E roles \in RoleSets :
        /\ db = [u \in Users |-> IF u = "u1" THEN authorized(registered(FALSE), roles, {}, {})
                                 ELSE registered(FALSE)]
        /\ usr = [p \in Procs |-> IF p = "p1" THEN loaded(db["u1"]) ELSE NoUser]
    /\ attempts = [u \in Users |-> 0]
    /\ sessionStore = {} /\ refreshStore = {} /\ tokens = {} /\ blacklist = {}
    /\ pc = [p \in Procs |-> "idle"]
    /\ req = [p \in Procs |-> NoRequest]
    /\ after = [p \in Procs |-> "none"]
    /\ res = [p \in Procs |-> NoResult]
    /\ redemptions = {}
    /\ az = NoDecision
    /\ published = {}

\* one more call on the aggregate in hand
Apply(u) ==
    /\ ops < MaxOps
    /\ ops' = ops + 1
    /\ usr' = [usr EXCEPT !["p1"] = u]
    /\ UNCHANGED <<published, az, now, frozen, tz, db, sessionStore, refreshStore, blacklist, tokens,
                   pc, req, after, res, attempts, redemptions>>

AddRole == \E role \in GrantableRoles : Apply(add_role(usr["p1"], role))

RemoveRole == \E role \in GrantableRoles : Apply(remove_role(usr["p1"], role))

AddPermission == \E perm \in Grants : Apply(add_permission(usr["p1"], perm))

NextRoles ==
    \/ AddRole
    \/ RemoveRole
    \/ AddPermission

SpecRoles == InitRoles /\ [][NextRoles]_vars

(* ------------------------- account use cases --------------------------- *)

\* Two registered users, nobody logged in; u1 may have two-factor
\* authentication on.
InitAccount ==
    /\ now = 0 /\ ops = 0
    /\ frozen = TRUE
    /\ tz = 0
    /\ \E tfa \in BOOLEAN :
        db = [u \in Users |-> IF u = "u1" THEN registered(tfa) ELSE registered(FALSE)]
    /\ attempts = [u \in Users |-> 0]
    /\ sessionStore = {} /\ refreshStore = {} /\ tokens = {} /\ blacklist = {}
    /\ pc = [p \in Procs |-> "idle"]
    /\ req = [p \in Procs |-> NoRequest]
    /\ usr = [p \in Procs |-> NoUser]
    /\ after = [p \in Procs |-> "none"]
    /\ res = [p \in Procs |-> NoResult]
    /\ redemptions = {}
    /\ az = NoDecision
    /\ published = {}

\* the secret a caller sends with enable_two_factor, if any
RequestSecrets == {"none", "S2"}

\* the n-th secret that pyotp.random_base32 gives
generate_secret(n) == "G" \o ToString(n)

\* User.enable_two_factor
enable_two_factor(u, secret, backup_codes) ==
    [u EXCEPT !.tfa = TRUE, !.secret = secret, !.backup = backup_codes, !.version = @ + 1]

\* the checks that pass any request of a user without two-factor authentication
enable_two_factor_gate_any_code(row, secret, code, t) ==
    IF row.tfa THEN "Two-factor authentication is already enabled" ELSE "ok"

\* the checks of enable_two_factor before the aggregate is touched
enable_two_factor_gate(row, secret, code, t) ==
    IF row.tfa THEN "Two-factor authentication is already enabled"
    ELSE IF ~verify_totp_code(secret, code, t) THEN "Invalid TOTP code"
    ELSE "ok"

\* AuthenticationService.enable_two_factor up to its save
EnableTwoFactor(p) ==
    /\ MayStart(p)
    /\ \E u \in Users, sent \in RequestSecrets :
        LET secret == IF sent = "none" THEN generate_secret(ops + 1) ELSE sent
        IN  \E code \in {Totp(secret, TotpStep(now)), Totp(secret, TotpStep(now) - 2),
                          Totp("S1", TotpStep(now))} :
            LET r == [NewRequest("enable_two_factor") EXCEPT !.user = u, !.code = code,
                                                             !.key = secret]
                gate == enable_two_factor_gate(db[u], secret, code, now)
            IN  /\ ops' = ops + 1
                /\ IF gate # "ok"
                   THEN Raise(p, r, db[u], gate)
                   ELSE Proceed(p, "save_select", r,
                                enable_two_factor(db[u], secret, BackupCodes), "return",
                                NoResult)
    /\ UNCHANGED <<published, az, now, frozen, tz, db, sessionStore, refreshStore, blacklist,
                   tokens, attempts, redemptions>>

\* AuthenticationService.create_api_key up to its save
CreateApiKey(p) ==
    /\ MayStart(p)
    /\ \E u \in Users, perms \in OwnedKeyGrants :
        LET created == APIKey_create(ops + 1, perms, None)
            r == [NewRequest("create_api_key") EXCEPT !.user = u,
                                                      !.key = created.api_key.key_id]
        IN  /\ ops' = ops + 1
            /\ Proceed(p, "save_select", r, create_api_key(db[u], created.api_key), "return",
                       [NoResult EXCEPT !.key = created.actual_key])
    /\ UNCHANGED <<published, az, now, frozen, tz, db, sessionStore, refreshStore, blacklist,
                   tokens, attempts, redemptions>>

NextAccount ==
    \/ \E p \in Procs : CreateApiKey(p)
    \/ \E p \in Procs : EnableTwoFactor(p)
    \/ \E p \in Procs : SaveSelect(p)
    \/ \E p \in Procs : SaveUpdate(p)
    \/ \E p \in Procs : Return(p)
    \/ Tick

SpecAccount == InitAccount /\ [][NextAccount]_vars

(* ------------------------ two-factor authentication -------------------- *)

\* a disable that only clears the flag
disable_two_factor_flag_only(u) ==
    [u EXCEPT !.tfa = FALSE, !.version = @ + 1]

\* User.disable_two_factor
disable_two_factor(u) ==
    [u EXCEPT !.tfa = FALSE, !.secret = "none", !.backup = {}, !.version = @ + 1]

\* AuthenticationService.disable_two_factor up to its save
DisableTwoFactor(p) ==
    /\ MayStart(p)
    /\ \E u \in Users, pw \in Passwords :
        LET r == [NewRequest("disable_two_factor") EXCEPT !.user = u, !.pw = pw]
        IN  /\ ops' = ops + 1
            /\ IF ~verify_password(db[u], pw)
               THEN Raise(p, r, db[u], "Invalid password")
               ELSE Proceed(p, "save_select", r, disable_two_factor(db[u]), "return",
                            NoResult)
    /\ UNCHANGED <<published, az, now, frozen, tz, db, sessionStore, refreshStore, blacklist,
                   tokens, attempts, redemptions>>

\* enabling and disabling, next to logins and password changes of the same users
NextTwoFactor ==
    \/ \E p \in Procs : EnableTwoFactor(p)
    \/ \E p \in Procs : DisableTwoFactor(p)
    \/ \E p \in Procs : LoginU1(p)
    \/ \E p \in Procs : ChangePassword(p)
    \/ \E p \in Procs : SaveSelect(p)
    \/ \E p \in Procs : SaveUpdate(p)
    \/ \E p \in Procs : Return(p)
    \/ Tick

SpecTwoFactor == InitAccount /\ [][NextTwoFactor]_vars

(* ------------------------------ registration --------------------------- *)

\* what callers give as e-mail address, user name and client
Emails == {"ann@x", "bob@x"}
Usernames == {"ann", "bob"}
ClientIds == {"none", "c1"}

\* the users table, before anyone has registered
NoRows == [i \in {} |-> NoUser]

\* User.create: a new aggregate, UserCreated recorded
User_create(email, username, pw, client_id) ==
    [status |-> "PendingVerification", failed |-> 0, locked_until |-> None,
     version |-> InitialVersion, pw |-> pw, tfa |-> FALSE, secret |-> "none",
     backup |-> {}, sessions |-> {}, roles |-> {}, custom_roles |-> {}, permissions |-> {},
     api_keys |-> {}, client_id |-> client_id, email |-> email, username |-> username,
     domain_events |-> <<[kind |-> "UserCreated", role |-> "none"]>>]

\* the row that INSERT INTO users writes for an aggregate: its columns
inserted(u) ==
    [status |-> u.status, failed |-> u.failed, locked_until |-> u.locked_until,
     version |-> u.version, pw |-> u.pw, tfa |-> u.tfa, secret |-> u.secret,
     backup |-> u.backup, sessions |-> u.sessions, roles |-> u.roles,
     custom_roles |-> u.custom_roles, permissions |-> u.permissions,
     api_keys |-> u.api_keys, client_id |-> u.client_id, email |-> u.email,
     username |-> u.username]

\* PostgreSQLUserRepository.find_by_email, find_by_username: is there such a row
find_by_email(email) == \E i \in DOMAIN db : db[i].email = email
find_by_username(username) == \E i \in DOMAIN db : db[i].username = username

\* an index that lets every row in
violates_unique_never(u) == FALSE

\* email VARCHAR(255) UNIQUE, username VARCHAR(100) UNIQUE: the row is refused
violates_unique(u) == find_by_email(u.email) \/ find_by_username(u.username)

\* the users table holds nobody, or one user who registered as ann
InitRegister ==
    /\ now = 0 /\ ops = 0
    /\ frozen \in BOOLEAN
    /\ tz = 0
    /\ \E status \in {"PendingVerification", "Active", "Inactive"} :
        db \in {NoRows,
                "r0" :> [inserted(add_role(User_create("ann@x", "ann", "P1", "none"),
                                           "TeamMember")) EXCEPT !.status = status]}
    /\ attempts = [u \in Users |-> 0]
    /\ sessionStore = {} /\ refreshStore = {} /\ tokens = {} /\ blacklist = {}
    /\ pc = [p \in Procs |-> "idle"]
    /\ req = [p \in Procs |-> NoRequest]
    /\ usr = [p \in Procs |-> NoUser]
    /\ after = [p \in Procs |-> "none"]
    /\ res = [p \in Procs |-> NoResult]
    /\ redemptions = {}
    /\ az = NoDecision
    /\ published = {}

\* AuthenticationService.register_user up to find_by_email
RegisterUser(p) ==
    /\ MayStart(p)
    /\ \E email \in Emails, username \in Usernames, pw \in {"P1"} \cup WeakPasswords,
          client_id \in ClientIds :
        LET r == [NewRequest("register_user") EXCEPT !.user = "r" \o ToString(ops + 1),
                                                     !.pw = pw]
                     @@ [email |-> email, username |-> username, client_id |-> client_id]
        IN  /\ ops' = ops + 1
            /\ IF find_by_email(email)
               THEN Raise(p, r, NoUser, "User with this email already exists")
               ELSE Proceed(p, "find_username", r, NoUser, "none", NoResult)
    /\ UNCHANGED <<published, az, now, frozen, tz, db, sessionStore, refreshStore, blacklist,
                   tokens, attempts, redemptions>>

\* register_user from find_by_username to its save
RegisterCreate(p) ==
    /\ pc[p] = "find_username"
    /\ LET r == req[p]
           role == IF r.client_id # "none" THEN "ClientUser" ELSE "TeamMember"
       IN  IF find_by_username(r.username)
           THEN Raise(p, r, NoUser, "Username already taken")
           ELSE IF ~password_is_valid(r.pw)
           THEN Raise(p, r, NoUser, "Password validation failed")
           ELSE Proceed(p, "insert", r,
                        add_role(User_create(r.email, r.username, r.pw, r.client_id), role),
                        "return", NoResult)
    /\ UNCHANGED <<published, az, now, ops, frozen, tz, db, sessionStore, refreshStore,
                   blacklist, tokens, attempts, redemptions>>

\* PostgreSQLUserRepository.save of a new user -- no row has its id, so the
\* statement is INSERT, which the unique indexes may refuse -- and the rest of
\* register_user: the events are published
SaveInsert(p) ==
    /\ pc[p] = "insert"
    /\ IF violates_unique(usr[p])
       THEN /\ Raise(p, req[p], usr[p], "UniqueViolationError")
            /\ UNCHANGED <<db, published>>
       ELSE /\ db' = (req[p].user :> inserted(usr[p])) @@ db
            /\ published' = published \cup
                   {[kind |-> usr[p].domain_events[i].kind, user |-> req[p].user,
                     key_id |-> "none", name |-> "none"] : i \in DOMAIN usr[p].domain_events}
            /\ Proceed(p, "done", req[p], usr[p], "none", [NoResult EXCEPT !.outcome = "ok"])
    /\ UNCHANGED <<az, now, ops, frozen, tz, sessionStore, refreshStore, blacklist, tokens,
                   attempts, redemptions>>

NextRegister ==
    \/ \E p \in Procs : RegisterUser(p)
    \/ \E p \in Procs : RegisterCreate(p)
    \/ \E p \in Procs : SaveInsert(p)
    \/ \E p \in Procs : Return(p)
    \/ Tick

SpecRegister == InitRegister /\ [][NextRegister]_vars

(* ------------------------------ locked out ----------------------------- *)

\* u1 has logged in (use case 0) and has then typed a wrong password five times
\* in a row, the last time at instant 0: it is locked out.
InitLocked ==
    /\ now = 0 /\ ops = 0
    /\ frozen \in BOOLEAN
    /\ tz \in TzOffsets
    /\ LET u1 == record_failed_login(
                     failed_logins(create_session(registered(FALSE), 0),
                                   MaxFailedAttempts - 1), 0)
           at == generate_access_token("u1", 0, 0)
           rt == generate_refresh_token("u1", 0, 0)
       IN  /\ db = [u \in Users |-> IF u = "u1" THEN u1 ELSE registered(FALSE)]
           /\ attempts = [u \in Users |-> IF u = "u1" THEN MaxFailedAttempts ELSE 0]
           /\ sessionStore = store_session({}, 0, "u1", SessionLife, 0)
           /\ refreshStore = store_refresh_token({}, "u1", rt, RefreshTokenLife, 0)
           /\ tokens = {at, rt}
    /\ blacklist = {}
    /\ pc = [p \in Procs |-> "idle"]
    /\ req = [p \in Procs |-> NoRequest]
    /\ usr = [p \in Procs |-> NoUser]
    /\ after = [p \in Procs |-> "none"]
    /\ res = [p \in Procs |-> NoResult]
    /\ redemptions = {}
    /\ az = NoDecision
    /\ published = {}

\* passwords are changed and logins made, one use case after the other
NextLocked ==
    \/ ChangePassword("p1")
    \/ Login("p1")
    \/ SaveSelect("p1")
    \/ SaveUpdate("p1")
    \/ Return("p1")
    \/ Tick

SpecLocked == InitLocked /\ [][NextLocked]_vars

(* --------------------------- token verification ------------------------ *)

\* the Authorization header of a request: none, another scheme, or a bearer token
AuthSchemes == {"none", "Basic", "Bearer"}

\* u1 has logged in; its access token may be on the blacklist
InitVerify ==
    /\ now = 0 /\ ops = 0
    /\ frozen = TRUE
    /\ tz \in TzOffsets
    /\ db = [u \in Users |-> IF u = "u1" THEN create_session(registered(FALSE), 0)
                             ELSE registered(FALSE)]
    /\ attempts = [u \in Users |-> 0]
    /\ LET at == generate_access_token("u1", 0, 0)
           rt == generate_refresh_token("u1", 0, 0)
       IN  /\ tokens = {at, rt}
           /\ sessionStore = store_session({}, 0, "u1", SessionLife, 0)
           /\ refreshStore = store_refresh_token({}, "u1", rt, RefreshTokenLife, 0)
           /\ blacklist \in {{}, blacklist_token({}, at.jti, local_datetime(at.exp), 0)}
    /\ pc = [p \in Procs |-> "idle"]
    /\ req = [p \in Procs |-> NoRequest]
    /\ usr = [p \in Procs |-> NoUser]
    /\ after = [p \in Procs |-> "none"]
    /\ res = [p \in Procs |-> NoResult]
    /\ redemptions = {}
    /\ az = NoDecision
    /\ published = {}

\* AuthenticationService.validate_token up to is_token_blacklisted: a token that
\* does not decode gives None
ValidateToken(p) ==
    /\ MayStart(p)
    /\ \E tok \in tokens \cup {ForgedToken} :
        LET r == [NewRequest("validate_token") EXCEPT !.user = tok.sub, !.tok = tok]
        IN  /\ ops' = ops + 1
            /\ IF ~decode_ok(tok, now)
               THEN Proceed(p, "done", r, NoUser, "none", [NoResult EXCEPT !.outcome = "ok"])
               ELSE Proceed(p, "blacklist_lookup", r, NoUser, "none", NoResult)
    /\ UNCHANGED <<published, az, now, frozen, tz, db, sessionStore, refreshStore, blacklist,
                   tokens, attempts, redemptions>>

\* Redis answers EXISTS blacklist:<jti>: None for a blacklisted token, the
\* payload otherwise
BlacklistAnswers(p) ==
    /\ pc[p] = "blacklist_lookup"
    /\ Proceed(p, "done", req[p], NoUser, "none",
               [NoResult EXCEPT !.outcome = "ok",
                                !.user = IF is_token_blacklisted(req[p].tok.jti) THEN "none"
                                         ELSE req[p].tok.sub])
    /\ UNCHANGED <<published, az, now, ops, frozen, tz, db, sessionStore, refreshStore,
                   blacklist, tokens, attempts, redemptions>>

\* the Redis client raises (connection refused or reset): not a ValueError, so
\* validate_token lets it through to its caller
BlacklistRaises(p) ==
    /\ pc[p] = "blacklist_lookup"
    /\ Raise(p, req[p], NoUser, "ConnectionError")
    /\ UNCHANGED <<published, az, now, ops, frozen, tz, db, sessionStore, refreshStore,
                   blacklist, tokens, attempts, redemptions>>

\* AuthenticationMiddleware.get_current_user up to the POST of validate_token
GetCurrentUser(p) ==
    /\ MayStart(p)
    /\ \E scheme \in AuthSchemes, tok \in tokens \cup {ForgedToken} :
        LET r == [NewRequest("get_current_user") EXCEPT !.user = tok.sub, !.tok = tok,
                                                        !.key = scheme]
        IN  /\ ops' = ops + 1
            /\ IF scheme = "none"
               THEN Raise(p, r, NoUser, "401 Authorization header required")
               ELSE IF scheme # "Bearer"
               THEN Raise(p, r, NoUser, "401 Invalid authorization format")
               ELSE Proceed(p, "http_call", r, NoUser, "none", NoResult)
    /\ UNCHANGED <<published, az, now, frozen, tz, db, sessionStore, refreshStore, blacklist,
                   tokens, attempts, redemptions>>

\* the route /api/v1/auth/validate of api/main.py: TokenValidationResponse(valid=False)
validate_route(tok) == [valid |-> FALSE, user_id |-> "none"]

\* the POST is answered, by the route with 200 or by something before it with
\* another status: validate_token gives the body if it says valid, None
\* otherwise, and get_current_user raises on None
HttpAnswers(p) ==
    /\ pc[p] = "http_call"
    /\ \E status_code \in {200, 500} :
        LET body == validate_route(req[p].tok)
            user_data == IF status_code = 200 /\ body.valid THEN body.user_id ELSE "none"
        IN  IF user_data = "none"
            THEN Raise(p, req[p], NoUser, "401 Invalid or expired token")
            ELSE Proceed(p, "done", req[p], NoUser, "none",
                         [NoResult EXCEPT !.outcome = "ok", !.user = user_data])
    /\ UNCHANGED <<published, az, now, ops, frozen, tz, db, sessionStore, refreshStore,
                   blacklist, tokens, attempts, redemptions>>

\* httpx raises -- no connection, or no answer within timeout=5.0 --, which
\* validate_token catches and turns into None
HttpRaises(p) ==
    /\ pc[p] = "http_call"
    /\ Raise(p, req[p], NoUser, "401 Invalid or expired token")
    /\ UNCHANGED <<published, az, now, ops, frozen, tz, db, sessionStore, refreshStore,
                   blacklist, tokens, attempts, redemptions>>

NextVerify ==
    \/ \E p \in Procs : ValidateToken(p)
    \/ \E p \in Procs : BlacklistAnswers(p)
    \/ \E p \in Procs : BlacklistRaises(p)
    \/ \E p \in Procs : GetCurrentUser(p)
    \/ \E p \in Procs : HttpAnswers(p)
    \/ \E p \in Procs : HttpRaises(p)
    \/ \E p \in Procs : Return(p)
    \/ Tick

\* What a handler does by itself happens: the timer of the POST runs out, an
\* answer is handed back.  Redis and the authentication service owe no answer.
SpecVerify ==
    /\ InitVerify /\ [][NextVerify]_vars
    /\ \A p \in Procs : WF_vars(HttpRaises(p)) /\ WF_vars(Return(p))

(* ------------------------------ user status ---------------------------- *)

\* User.unlock_account
unlock_account(u) ==
    [u EXCEPT !.locked_until = None, !.failed = 0,
              !.status = IF @ = "Suspended" THEN "Active" ELSE @,
              !.version = @ + 1]

\* User.verify_email
verify_email(u) ==
    [u EXCEPT !.status = IF @ = "PendingVerification" THEN "Active" ELSE @,
              !.version = @ + 1]

\* A caller holds u1, loaded from the store, in any status and with no or four
\* calls of record_failed_login behind it.
InitStatus ==
    /\ now = 0 /\ ops = 0
    /\ frozen = TRUE
    /\ tz = 0
    /\ \E status \in UserStatuses, f \in InitFailed :
        /\ db = [u \in Users |-> IF u = "u1"
                                 THEN failed_logins([registered(FALSE) EXCEPT !.status = status], f)
                                 ELSE registered(FALSE)]
        /\ usr = [p \in Procs |-> IF p = "p1" THEN loaded(db["u1"]) ELSE NoUser]
    /\ attempts = [u \in Users |-> 0]
    /\ sessionStore = {} /\ refreshStore = {} /\ tokens = {} /\ blacklist = {}
    /\ pc = [p \in Procs |-> "idle"]
    /\ req = [p \in Procs |-> NoRequest]
    /\ after = [p \in Procs |-> "none"]
    /\ res = [p \in Procs |-> NoResult]
    /\ redemptions = {}
    /\ az = NoDecision
    /\ published = {}

RecordFailedLogin == Apply(record_failed_login(usr["p1"], now))

UnlockAccount == Apply(unlock_account(usr["p1"]))

VerifyEmail == Apply(verify_email(usr["p1"]))

NextStatus ==
    \/ RecordFailedLogin
    \/ UnlockAccount
    \/ VerifyEmail
    \/ Tick

SpecStatus == InitStatus /\ [][NextStatus]_vars

(* ----------------------------- load and save --------------------------- *)

\* the two classes PostgreSQLUserRepository, by the module that defines them
Repositories == {"repositories", "user_repository"}

\* _row_to_user of infrastructure/repositories.py: the JSON columns are parsed
\* back into custom roles, permissions, API keys and sessions
row_to_user(row) ==
    [row EXCEPT !.custom_roles = {r : r \in row.custom_roles},
                !.permissions = {perm : perm \in row.permissions},
                !.api_keys = {k : k \in row.api_keys},
                !.sessions = {sn : sn \in row.sessions}]

\* _row_to_user of infrastructure/user_repository.py: the four lists start empty
row_to_user_simplified(row) ==
    [row EXCEPT !.custom_roles = {}, !.permissions = {}, !.api_keys = {}, !.sessions = {}]

\* get_by_id of the repository that is wired in
get_by_id(repository, u) ==
    IF repository = "repositories" THEN row_to_user(db[u]) ELSE row_to_user_simplified(db[u])

\* AuthenticationService.verify_email up to its save
VerifyEmailUseCase(p) ==
    /\ MayStart(p)
    /\ \E u \in Users, repository \in Repositories :
        LET r == [NewRequest("verify_email") EXCEPT !.user = u, !.key = repository]
        IN  /\ ops' = ops + 1
            /\ Proceed(p, "save_select", r, verify_email(get_by_id(repository, u)), "return",
                       NoResult)
    /\ UNCHANGED <<published, az, now, frozen, tz, db, sessionStore, refreshStore, blacklist,
                   tokens, attempts, redemptions>>

\* e-mail addresses are verified, one use case after the other
NextReload ==
    \/ VerifyEmailUseCase("p1")
    \/ SaveSelect("p1")
    \/ SaveUpdate("p1")
    \/ Return("p1")
    \/ Tick

SpecReload == InitKeys /\ [][NextReload]_vars

(* ------------------------------ properties ----------------------------- *)

\* handler p takes a login request in this step
StartsLogin(p) == pc[p] = "idle" /\ pc'[p] # "idle" /\ req'[p].op = "login"

\* handler p writes the user's row in this step
Writes(p) == pc[p] = "save_update" /\ pc'[p] # "save_update"

\* handler p answers in this step
Answers(p) == pc[p] # "done" /\ pc'[p] = "done"

\* C1: with logins made one after the other, a wrong password adds one to the
\* counter; the failure that brings it to 5 makes the stored user Suspended with
\* locked_until 30 minutes after that failure; below 5 the user stays Active
\* with no locked_until; a successful login stores the counter as 0; the stored
\* counter is the number of wrong passwords since the last success.
C1_LockAfterFiveFailures ==
    [][/\ (\A q \in Procs : pc'[q] \in {"idle", "done"}) =>
            \A u \in Users : db'[u].failed = attempts'[u]
       /\ \A p \in Procs :
        /\ (StartsLogin(p) /\ after'[p] = "raise_invalid_credentials") =>
              LET row == db[req'[p].user]
                  u == usr'[p]
              IN  /\ u.failed = row.failed + 1
                  /\ u.failed >= 5 => u.status = "Suspended" /\ u.locked_until = now + 30 * 60 * TicksPerSecond
                  /\ u.failed < 5 => u.status = "Active" /\ u.locked_until = None
        /\ (Writes(p) /\ after[p] = "raise_invalid_credentials") =>
              /\ db'[req[p].user] = usr[p]
              /\ db'[req[p].user].failed = db[req[p].user].failed + 1
        /\ (Writes(p) /\ req[p].op = "login" /\ after[p] = "return") =>
              db'[req[p].user].failed = 0
    ]_vars

\* C1 witness: the fifth wrong password in a row has been answered and the stored
\* user is Suspended with a lock
C1_Witness ==
    \E p \in Procs :
        /\ pc[p] = "done" /\ req[p].op = "login" /\ res[p].msg = "Invalid credentials"
        /\ db[req[p].user].failed = 5
        /\ db[req[p].user].status = "Suspended"
        /\ db[req[p].user].locked_until # None

\* C2: a login that finds the user inside the lock window (locked_until > now)
\* is answered with an error whatever the password, creates no session in the
\* aggregate or the session store, issues no token and writes nothing to the
\* user's row.
C2_LockedLoginFails ==
    [][\A p \in Procs :
        (StartsLogin(p) /\ db[req'[p].user].locked_until # None
                        /\ db[req'[p].user].locked_until > now) =>
            /\ pc'[p] = "done"
            /\ res'[p].outcome = "error"
            /\ res'[p].sid = None /\ res'[p].access = NoToken /\ res'[p].refresh = NoToken
            /\ usr'[p] = db[req'[p].user]
            /\ db' = db /\ sessionStore' = sessionStore /\ refreshStore' = refreshStore
            /\ tokens' = tokens
    ]_vars

\* C2 witness: a login with the correct password has been refused inside the
\* lock window
C2_Witness ==
    \E p \in Procs :
        /\ pc[p] = "done" /\ req[p].op = "login"
        /\ req[p].pw = db[req[p].user].pw
        /\ db[req[p].user].locked_until # None /\ db[req[p].user].locked_until > now
        /\ res[p].outcome = "error"
        /\ res[p].msg = "Account is temporarily locked due to failed login attempts"

\* C3: a login with the correct password on a user locked out by 5 failures,
\* made once locked_until has elapsed, is not refused: it goes on to create a
\* session and tokens and to store the counter as 0.
C3_LoginAfterLockElapsed ==
    [][\A p \in Procs :
        (StartsLogin(p) /\ db[req'[p].user].failed >= 5
                        /\ db[req'[p].user].locked_until # None
                        /\ db[req'[p].user].locked_until <= now
                        /\ req'[p].pw = db[req'[p].user].pw
                        /\ ~db[req'[p].user].tfa) =>
            /\ pc'[p] = "save_select"
            /\ res'[p].sid # None /\ res'[p].access # NoToken /\ res'[p].refresh # NoToken
            /\ usr'[p].failed = 0
            /\ usr'[p].status = "Active"
    ]_vars

\* C4: when two wrong-password logins against the same user have both been
\* answered, the stored counter shows every one of them (below the lockout
\* threshold): no increment is lost.
C4_NoLostIncrement ==
    \A u \in Users :
        (/\ \A p \in Procs : /\ pc[p] = "done" /\ req[p].op = "login" /\ req[p].user = u
                              /\ ~verify_password(db[u], req[p].pw)
                              /\ res[p].msg \in {"Invalid credentials",
                                                 "Optimistic locking violation"}
         /\ attempts[u] < 5)
        => db[u].failed = attempts[u]

\* C5: a save only writes a row computed from the version that is stored at the
\* moment of the write, so a committed mutation is never overwritten by a save
\* computed from a stale version.
C5_NoStaleWrite ==
    [][\A p \in Procs :
        Writes(p) => db[req[p].user].version = usr[p].version - 1
    ]_vars

\* C6: a token handed out by the service whose jti has been blacklisted is
\* rejected by validate_token at every instant before its exp.
C6_BlacklistedTokenRejected ==
    \A tok \in tokens :
        ((\E e \in blacklist : e.jti = tok.jti) /\ now < tok.exp) => ~validate_token(tok)

\* C7: a refresh token is redeemed by at most one refresh_token call.
C7_SingleUseRefreshToken ==
    \A r1, r2 \in redemptions : r1.jti = r2.jti => r1.n = r2.n

\* C8: a logout of an existing user is answered without error whatever the
\* optional session id and access token; a supplied session is then gone from
\* the session store and Revoked in the stored aggregate, and a supplied
\* unexpired access token is blacklisted.  (Stated for the build in which a
\* session can be revoked at all.)
C8_LogoutCompletes ==
    [][\A p \in Procs :
        (Answers(p) /\ req'[p].op = "logout" /\ ~frozen) =>
            LET r == req'[p]
            IN  /\ res'[p].outcome = "ok"
                /\ r.sid # None =>
                      /\ ~\E e \in sessionStore' : e.sid = r.sid
                      /\ \A s \in db'[r.user].sessions : s.id = r.sid => s.status = "Revoked"
                /\ (r.tok # NoToken /\ r.tok.sig /\ now < r.tok.exp) =>
                      \E e \in blacklist' : e.jti = r.tok.jti
    ]_vars

\* C9: a change_password request with the correct current password and an
\* accepted new password is answered without error with the new password
\* stored, every session other than the one to keep Revoked and the one to keep
\* left as it was.  (Stated for the build in which a session can be revoked at
\* all.)
C9_PasswordChangePersisted ==
    [][\A p \in Procs :
        (/\ Answers(p) /\ req'[p].op = "change_password" /\ ~frozen
         /\ req'[p].pw = db[req'[p].user].pw
         /\ password_is_valid(req'[p].newpw)) =>
            LET r == req'[p]
            IN  /\ res'[p].outcome = "ok"
                /\ db'[r.user].pw = r.newpw
                /\ \A s \in db'[r.user].sessions : s.id # r.sid => s.status = "Revoked"
                /\ \A s \in db[r.user].sessions : s.id = r.sid => s \in db'[r.user].sessions
    ]_vars

\* C10: a login of a user with two-factor authentication on creates a session
\* and tokens only if its code is a TOTP code of the user's secret for the
\* current or an adjacent time step, or one of the user's backup codes; with the
\* right password and no code it answers requires_2fa with the user id and
\* creates nothing; with another code it fails and creates nothing.
C10_TwoFactorGate ==
    [][\A p \in Procs :
        (StartsLogin(p) /\ db[req'[p].user].tfa) =>
            LET r == req'[p]
                row == db[r.user]
                step == now \div (30 * TicksPerSecond)
                valid == \/ /\ r.code.kind = "totp" /\ r.code.secret = row.secret
                            /\ r.code.step \in {step - 1, step, step + 1}
                         \/ r.code \in row.backup
                passed == row.locked_until = None /\ row.status = "Active" /\ r.pw = row.pw
            IN  /\ ~valid =>
                      /\ sessionStore' = sessionStore /\ refreshStore' = refreshStore
                      /\ res'[p].sid = None /\ res'[p].access = NoToken
                      /\ res'[p].refresh = NoToken
                      /\ after'[p] \notin {"issue", "return"}
                      /\ usr'[p].sessions = row.sessions
                /\ (passed /\ r.code = NoCode) =>
                      /\ pc'[p] = "done" /\ res'[p].outcome = "requires_2fa"
                      /\ res'[p].user = r.user
                /\ (passed /\ r.code # NoCode /\ ~valid) =>
                      /\ pc'[p] = "done" /\ res'[p].outcome = "error"
                      /\ res'[p].msg = "Invalid two-factor authentication code"
    ]_vars

\* C10 witness: a login with a TOTP code of the user's secret has been answered
\* with a session and tokens
C10_Witness ==
    \E p \in Procs :
        /\ pc[p] = "done" /\ req[p].op = "login" /\ db[req[p].user].tfa
        /\ req[p].code.kind = "totp" /\ req[p].code.secret = db[req[p].user].secret
        /\ res[p].outcome = "ok" /\ res[p].sid # None
        /\ res[p].access # NoToken /\ res[p].refresh # NoToken

\* C11: a login that presents one of the user's unused backup codes with the
\* correct password is answered with a session and tokens, and the stored user no
\* longer holds that code.
C11_BackupCodeLoginSucceeds ==
    [][\A p \in Procs :
        (/\ Answers(p) /\ req'[p].op = "login"
         /\ db[req'[p].user].tfa
         /\ req'[p].code \in db[req'[p].user].backup
         /\ req'[p].pw = db[req'[p].user].pw
         /\ db[req'[p].user].status = "Active"
         /\ db[req'[p].user].locked_until = None) =>
            /\ res'[p].outcome = "ok"
            /\ res'[p].sid # None /\ res'[p].access # NoToken
            /\ req'[p].code \notin db'[req'[p].user].backup
    ]_vars

\* a permission covers a request made at instant t: same resource type, same
\* permission type, no resource id or the requested one, and no expiry before t
Covers(perm, rt, pt, rid, t) ==
    /\ perm.resource_type = rt
    /\ perm.permission_type = pt
    /\ perm.resource_id \in {NoId, rid}
    /\ (perm.expires_at = None \/ perm.expires_at >= t)

\* the number of the first rule of the list that applies to the decision recorded
RuleApplied ==
    LET u == db[az.user]
    IN  IF \E perm \in u.permissions : Covers(perm, az.rt, az.pt, az.rid, az.at) THEN 1
        ELSE IF \E role \in u.custom_roles : \E perm \in role.permissions :
                    Covers(perm, az.rt, az.pt, az.rid, az.at) THEN 2
        ELSE IF "SuperAdmin" \in u.roles THEN 3
        ELSE IF "Admin" \in u.roles /\ az.pt # "Delete" THEN 4
        ELSE 5

\* C12: whatever system roles, custom roles and direct permissions the user holds
\* and whatever is requested, has_permission answers what the ordered rule list
\* answers: allow by a direct permission, else by a custom role's permission, else
\* by SuperAdmin, else by Admin unless Delete is asked, else deny.
C12_HasPermissionIsRuleList ==
    az.by = "user" => (az.allowed <=> RuleApplied \in 1..4)

\* a request allowed by nothing but a permission of a custom role
C12_Witness ==
    /\ az.by = "user" /\ az.allowed /\ RuleApplied = 2
    /\ db[az.user].roles \cap {"SuperAdmin", "Admin"} = {}

\* C13: SuperAdmin is allowed everything; Admin without SuperAdmin, direct
\* permissions or custom roles is allowed everything but Delete and is denied
\* Delete; Admin without SuperAdmin gets Delete only by a grant that covers the
\* request and has not expired.
C13_AdminDeleteCarveOut ==
    az.by = "user" =>
        LET u == db[az.user]
            held == u.permissions \cup UNION {role.permissions : role \in u.custom_roles}
        IN  /\ "SuperAdmin" \in u.roles => az.allowed
            /\ ("Admin" \in u.roles /\ "SuperAdmin" \notin u.roles
                    /\ u.permissions = {} /\ u.custom_roles = {})
                   => (az.allowed <=> az.pt # "Delete")
            /\ ("Admin" \in u.roles /\ "SuperAdmin" \notin u.roles
                    /\ az.pt = "Delete" /\ az.allowed)
                   => \E perm \in held : Covers(perm, az.rt, "Delete", az.rid, az.at)

\* an Admin who holds a grant, though not one for what is asked, is denied Delete
C13_Witness ==
    /\ az.by = "user" /\ az.pt = "Delete" /\ ~az.allowed
    /\ "Admin" \in db[az.user].roles
    /\ db[az.user].permissions # {}

\* the permissions that the holder of the recorded decision holds: the key's own
\* list for a key, the direct permissions and those of the custom roles for a user
HeldPermissions ==
    LET u == db[az.user]
    IN  IF az.by = "key"
        THEN UNION {key.permissions : key \in {k \in u.api_keys : k.key_id = az.key}}
        ELSE u.permissions \cup UNION {role.permissions : role \in u.custom_roles}

\* C14: a held permission without resource id allows every request of its
\* resource type and permission type, with or without an id; one with a resource
\* id allows the request for that id; and where no system role decides, a request
\* is allowed only by a held permission of the same resource type and permission
\* type, for every id or for the requested one, whose expires_at is not in the
\* past -- be it held directly, through a custom role, or by an API key.
C14_PermissionMatching ==
    az.by # "none" =>
        /\ \A perm \in HeldPermissions :
            (/\ perm.resource_type = az.rt /\ perm.permission_type = az.pt
             /\ (perm.resource_id = NoId \/ perm.resource_id = az.rid)
             /\ (perm.expires_at = None \/ perm.expires_at >= az.at)) => az.allowed
        /\ (az.allowed /\ (az.by = "key" \/ db[az.user].roles \cap {"SuperAdmin", "Admin"} = {}))
              => \E perm \in HeldPermissions :
                    /\ perm.resource_type = az.rt /\ perm.permission_type = az.pt
                    /\ perm.resource_id \in {NoId, az.rid}
                    /\ ~(perm.expires_at # None /\ perm.expires_at < az.at)

\* an API key is denied what its only permission allowed until it expired
C14_Witness ==
    /\ az.by = "key" /\ ~az.allowed
    /\ \E perm \in HeldPermissions :
        /\ perm.resource_type = az.rt /\ perm.permission_type = az.pt
        /\ perm.resource_id = NoId /\ az.rid # NoId
        /\ perm.expires_at # None /\ perm.expires_at < az.at

\* the API key of the recorded decision, as the store holds it
DecidedKeys == {k \in db[az.user].api_keys : k.key_id = az.key}

\* the requests that can be made of a key
KeyRequests == AzResourceTypes \X AzPermissionTypes \X AzResourceIds

\* C15: a key that is in force and lists (Project, Read, no resource id) validates
\* for Read on every project and, listing nothing else, for no Delete; a
\* key whose expires_at has passed validates for nothing; and once a request to
\* revoke a key of the user has been answered, that key validates for nothing.
C15_RevokedOrExpiredKeyNeverValidates ==
    [][/\ az'.by = "key" =>
            \A k \in DecidedKeys' :
                /\ (/\ k.permissions = {Permission("Project", NoId, "Read", None)}
                    /\ k.is_active /\ (k.expires_at = None \/ k.expires_at >= az'.at))
                       => /\ (az'.rt = "Project" /\ az'.pt = "Read") => az'.allowed
                          /\ az'.pt = "Delete" => ~az'.allowed
                /\ (k.expires_at # None /\ k.expires_at < az'.at) => ~az'.allowed
       /\ \A p \in Procs :
            (Answers(p) /\ req'[p].op = "revoke_api_key") =>
                \A k \in db'[req'[p].user].api_keys :
                    k.key_id = req'[p].key =>
                        \A q \in KeyRequests :
                            ~validate_api_key_permissions(k, q[1], q[2], q[3], now')
    ]_vars

\* C16: a request made with an API key is allowed only if the key's own list
\* has a permission that covers it and has not expired, whatever the owner holds.
C16_KeyInheritsNothing ==
    (az.by = "key" /\ az.allowed) =>
        \E k \in DecidedKeys : \E perm \in k.permissions :
            Covers(perm, az.rt, az.pt, az.rid, az.at)

\* a key in force, without a permission for the request, is denied what its
\* owner is allowed as SuperAdmin
C16_Witness ==
    /\ az.by = "key" /\ ~az.allowed
    /\ "SuperAdmin" \in db[az.user].roles
    /\ \E k \in DecidedKeys :
        /\ k.is_active /\ k.expires_at = None
        /\ ~\E perm \in k.permissions : Covers(perm, az.rt, az.pt, az.rid, az.at)

\* C17: a user whose stored status is Inactive stays Inactive whatever happens
\* next, the write of a use case that read the user earlier included, and a login
\* taken while the user is Inactive is answered with an error.
C17_InactiveIsTerminal ==
    [][/\ \A u \in Users : db[u].status = "Inactive" => db'[u].status = "Inactive"
       /\ \A p \in Procs :
            (StartsLogin(p) /\ db[req'[p].user].status = "Inactive") =>
                /\ pc'[p] = "done" /\ res'[p].outcome = "error"
    ]_vars

\* C18: a session that validate_session does not return -- it has expired or
\* was revoked -- is not returned by validate_session in the next state either,
\* whatever extend_session, validate_session or revoke_session does in between.
C18_EndedSessionStaysEnded ==
    [][\A sid \in IssuedSessions : ~validate_session(sid) => ~validate_session(sid)']_vars

\* C19: every key written to the blacklist for a token has a time to live, and
\* it runs out at the token's exp: the entry is there until then and gone after.
C19_BlacklistEntryBoundedByExpiry ==
    \A e \in blacklist : \A tok \in tokens :
        tok.jti = e.jti => (e.ttl_at # None /\ e.ttl_at = tok.exp)

\* C20: a token decoded before it expires gives back what it was issued for: an
\* access token the user's id, roles and client and an exp that is later than iat
\* by the minutes asked for, a refresh token the type refresh and an exp thirty
\* days after iat; and no two tokens have the same jti.
C20_TokenRoundTrip ==
    /\ \A i \in tokens :
        LET d == decode_token(i.jwt, now)
        IN  d # NoPayload =>
                /\ d.sub = i.user
                /\ d.exp - d.iat = Minutes(i.minutes)
                /\ i.kind = "access" =>
                      /\ d.roles = db[i.user].roles
                      /\ d.client_id = db[i.user].client_id
                /\ i.kind = "refresh" => d.type = "refresh"
    /\ \A i, j \in tokens : i.jwt.payload.jti = j.jwt.payload.jti => i = j

\* C21: on every aggregate, add_role, remove_role and add_permission called a
\* second time with the same argument change nothing -- roles, permissions,
\* version and pending events are as after the first call -- and a call that
\* leaves the aggregate as it was records no event.
C21_RoleAndPermissionCallsIdempotent ==
    LET u == usr["p1"]
    IN  /\ \A role \in GrantableRoles :
            /\ add_role(add_role(u, role), role) = add_role(u, role)
            /\ remove_role(remove_role(u, role), role) = remove_role(u, role)
            /\ [add_role(u, role) EXCEPT !.domain_events = u.domain_events] = u
                   => add_role(u, role) = u
            /\ [remove_role(u, role) EXCEPT !.domain_events = u.domain_events] = u
                   => remove_role(u, role) = u
        /\ \A perm \in Grants :
            add_permission(add_permission(u, perm), perm) = add_permission(u, perm)

\* C22: a login against a locked account is answered as a login with a wrong
\* password is: with an error whose message is "Invalid credentials".
C22_LockedLooksLikeWrongPassword ==
    [][\A p \in Procs :
        (/\ StartsLogin(p) /\ pc'[p] = "done"
         /\ is_locked(db[req'[p].user], now)) =>
            /\ res'[p].outcome = "error"
            /\ res'[p].msg = "Invalid credentials"
    ]_vars

\* C23: a failed login whose save meets a version other than the one it expects
\* is not answered at that point: the use case goes on, to load the user again.
C23_ConflictRetriedOnce ==
    [][\A p \in Procs :
        (/\ pc[p] = "save_select" /\ pc'[p] # "save_select"
         /\ after[p] = "raise_invalid_credentials"
         /\ ~save_accepts(db[req[p].user].version, usr[p])) =>
            pc'[p] # "done"
    ]_vars

\* every key that generate_api_key may have given
PlainKeys == {generate_api_key(n) : n \in 0..(MaxOps + 1)}

\* the answers of create_api_key that carry a key
KeyAnswers == {p \in Procs : res[p].key # NoKey}

\* C24: no stored user, no aggregate about to be stored and no published event
\* holds an API key in its plaintext: a key is kept as its hash, the hash
\* verifies the key that create_api_key answered with and no other, and only the
\* create_api_key call that made a key answers with it.
C24_ApiKeyPlaintextOnlyReturned ==
    /\ \A u \in Users : \A k \in db[u].api_keys : k.key_hash \notin PlainKeys
    /\ \A p \in Procs : \A k \in usr[p].api_keys : k.key_hash \notin PlainKeys
    /\ \A e \in published : e.key_id \notin PlainKeys /\ e.name \notin PlainKeys
    /\ \A p \in KeyAnswers :
        /\ req[p].op = "create_api_key"
        /\ \A k \in usr[p].api_keys : k.key_id = req[p].key =>
            \A plain \in PlainKeys : verify_api_key(plain, k.key_hash) <=> plain = res[p].key
        /\ \A q \in KeyAnswers : res[q].key = res[p].key => q = p

C24_Witness ==
    \E p \in Procs :
        /\ pc[p] = "done" /\ req[p].op = "create_api_key" /\ res[p].outcome = "ok"
        /\ \E k \in db[req[p].user].api_keys :
            k.key_id = req[p].key /\ verify_api_key(res[p].key, k.key_hash)
        /\ \E e \in published : e.kind = "APIKeyCreated" /\ e.key_id = req[p].key

\* C25: what store_refresh_token writes is not the refresh token itself: no
\* step writes an entry that holds the refresh token some handler is about to
\* answer with.
C25_RefreshTokenStoredAsHash ==
    [][\A e \in refreshStore' \ refreshStore :
        \A p \in Procs : e.token_hash # res'[p].refresh
    ]_vars

\* handler p looks a user up and a stored user has what it looks for
FindsTaken(p) ==
    \/ /\ pc[p] = "idle" /\ pc'[p] # "idle"
       /\ find_by_email(req'[p].email)
    \/ /\ pc[p] = "find_username" /\ pc'[p] # "find_username"
       /\ find_by_username(req[p].username)

\* C26: register_user fails with a validation error and leaves the users table
\* as it is when it finds a stored user with the e-mail address or the user name
\* asked for; however the calls interleave, no two stored users have the same
\* e-mail address or the same user name; and a user enters the table with the
\* status PendingVerification.
C26_RegistrationKeepsUsersUnique ==
    /\ [](\A i, j \in DOMAIN db :
            (db[i].email = db[j].email \/ db[i].username = db[j].username) => i = j)
    /\ [][/\ \A p \in Procs : FindsTaken(p) =>
                /\ pc'[p] = "done" /\ res'[p].outcome = "error"
                /\ res'[p].msg \in {"User with this email already exists",
                                    "Username already taken"}
                /\ db' = db
          /\ \A i \in DOMAIN db' \ DOMAIN db : db'[i].status = "PendingVerification"
       ]_vars

C26_Witness ==
    \E p, q \in Procs :
        /\ pc[p] = "done" /\ res[p].msg = "UniqueViolationError"
        /\ pc[q] = "done" /\ res[q].outcome = "ok"
        /\ req[q].user \in DOMAIN db /\ req[p].user \notin DOMAIN db
        /\ db[req[q].user].email = req[p].email

\* the codes that the secret of handler p's request gives at this instant, one
\* 30-second step either way included
CurrentCodes(p) ==
    {Totp(req'[p].key, TotpStep(now) + d) : d \in (0 - TotpValidWindow)..TotpValidWindow}

\* handler p takes a request to enable two-factor authentication
StartsEnable(p) == pc[p] = "idle" /\ pc'[p] # "idle" /\ req'[p].op = "enable_two_factor"

\* C27: enable_two_factor goes on to change the user only when the code sent
\* is valid for the secret at that instant and two-factor authentication is
\* off; otherwise the call fails, the stored user is as before, and no event is
\* published.  UserTwoFactorEnabled is published for a user only with the stored
\* user's two-factor fields written.
C27_EnableTwoFactorNeedsValidCode ==
    [][\A p \in Procs :
        /\ StartsEnable(p) =>
            IF req'[p].code \in CurrentCodes(p) /\ ~db[req'[p].user].tfa
            THEN pc'[p] = "save_select"
            ELSE /\ pc'[p] = "done" /\ res'[p].outcome = "error"
                 /\ db' = db /\ published' = published
        /\ (req[p].op = "enable_two_factor" /\ pc'[p] # pc[p] /\ published' # published) =>
            /\ db'[req[p].user].tfa /\ db'[req[p].user].secret = req[p].key
            /\ pc'[p] = "done" /\ res'[p].outcome = "ok"
    ]_vars

C27_Witness ==
    /\ \E p \in Procs :
        /\ pc[p] = "done" /\ req[p].op = "enable_two_factor" /\ res[p].outcome = "ok"
        /\ db[req[p].user].tfa /\ db[req[p].user].secret = req[p].key
        /\ \E e \in published : e.kind = "UserTwoFactorEnabled" /\ e.user = req[p].user
    /\ \E q \in Procs :
        /\ pc[q] = "done" /\ req[q].op = "enable_two_factor"
        /\ res[q].msg = "Invalid TOTP code"

\* C28: a verification that met an error gives no claims, and no verification
\* waits for ever: once the blacklist lookup or the call to the authentication
\* service is under way, the handler comes to its answer.
C28_VerificationFailsClosed ==
    /\ [](\A p \in Procs : (pc[p] = "done" /\ res[p].outcome = "error") => res[p].user = "none")
    /\ \A p \in Procs : (pc[p] \in {"blacklist_lookup", "http_call"}) ~> (pc[p] = "done")

\* C29: change_password clears the lock state -- the row it writes has
\* failed_login_attempts = 0 and no locked_until -- and a login that follows
\* with the new password, P2, is not turned away at the gates of login.
C29_ChangePasswordClearsLock ==
    [][/\ (Writes("p1") /\ req["p1"].op = "change_password") =>
            /\ db'[req["p1"].user].failed = 0
            /\ db'[req["p1"].user].locked_until = None
       /\ (/\ StartsLogin("p1") /\ req'["p1"].user = "u1" /\ req'["p1"].pw = "P2"
           /\ verify_password(db["u1"], "P2")) =>
            ~(/\ pc'["p1"] = "done" /\ res'["p1"].outcome = "error"
              /\ res'["p1"].msg \in
                     {"Account is not active",
                      "Account is temporarily locked due to failed login attempts"})
    ]_vars

\* C30: with the use cases run one after the other, every save is accepted:
\* the aggregate that reaches save carries the stored version plus one.
C30_SequentialSavesAccepted ==
    [][(pc["p1"] = "save_select" /\ pc'["p1"] # "save_select") =>
            /\ usr["p1"].version = db[req["p1"].user].version + 1
            /\ pc'["p1"] = "save_update"
    ]_vars

\* C31: the status of the aggregate in hand moves only from PendingVerification
\* to Active, from Active to Suspended, from Suspended to Active, or to Inactive.
C31_StatusMovesAlongEdges ==
    [][LET old == usr["p1"].status
           new == usr'["p1"].status
       IN  \/ new = old
           \/ old = "PendingVerification" /\ new = "Active"
           \/ old = "Active" /\ new = "Suspended"
           \/ old = "Suspended" /\ new = "Active"
           \/ new = "Inactive"
    ]_vars

\* C32: the row that a use case writes after get_by_id and one mutation that
\* touches none of them has the custom roles, the direct permissions, the API
\* keys and the sessions that the row had before.
C32_LoadSaveKeepsCollections ==
    [][(Writes("p1") /\ req["p1"].op = "verify_email") =>
        LET old == db[req["p1"].user]
            new == db'[req["p1"].user]
        IN  /\ new.custom_roles = old.custom_roles
            /\ new.permissions = old.permissions
            /\ new.api_keys = old.api_keys
            /\ new.sessions = old.sessions
    ]_vars

\* C33: a login against an Active, unlocked user that does not succeed counts:
\* whether the password or the second-factor code was wrong, the aggregate
\* leaves the step with one more failed attempt than the stored user had.
C33_EveryFailedLoginCounts ==
    [][\A p \in Procs :
        (/\ StartsLogin(p)
         /\ db[req'[p].user].status = "Active" /\ ~is_locked(db[req'[p].user], now)
         /\ \/ pc'[p] = "done" /\ res'[p].outcome = "error"
            \/ after'[p] = "raise_invalid_credentials") =>
            usr'[p].failed = db[req'[p].user].failed + 1
    ]_vars

\* C34: logout(user_id, session_id) leaves every session of another user in
\* the session store as it is.
C34_LogoutTouchesOwnSessionsOnly ==
    [][\A p \in Procs :
        (pc[p] = "idle" /\ req'[p].op = "logout") =>
            \A e \in sessionStore : e.user # req'[p].user => e \in sessionStore'
    ]_vars

\* the refresh token that handler p redeems came with a session that the stored
\* user has as Revoked (a login issues session n and the refresh token 2n + 3)
RedeemsEndedSession(p) ==
    \E sn \in db[req[p].user].sessions :
        sn.status = "Revoked" /\ req[p].tok.jti = 2 * sn.id + 3

\* C35: refresh_token hands out new tokens only for a user whom login would let
\* through its gates -- not locked, status Active or PasswordResetRequired --
\* and only for a refresh token whose session has not been ended.
C35_RefreshOnlyForLoginableUser ==
    [][\A p \in Procs :
        (pc[p] = "rotate" /\ pc'[p] = "done" /\ res'[p].outcome = "ok") =>
            /\ login_gate(db[req[p].user], now) = "open"
            /\ ~RedeemsEndedSession(p)
    ]_vars

\* C36: validate_token gives claims for access tokens only, and refresh_token
\* goes on to the store only with a token of type refresh.
C36_TokenTypesKeptApart ==
    [][\A p \in Procs :
        /\ (pc[p] = "blacklist_lookup" /\ pc'[p] = "done" /\ res'[p].user # "none") =>
                req[p].tok.kind = "access"
        /\ (pc[p] = "idle" /\ pc'[p] = "rotate") => req'[p].tok.kind = "refresh"
    ]_vars

TwoFactorFieldsAgree(u) ==
    /\ u.tfa <=> u.secret # "none"
    /\ ~u.tfa => u.backup = {}

\* handler p starts a use case and hands the user on with another
\* two_factor_enabled or two_factor_secret than the stored user it loaded
ChangesTwoFactor(p) ==
    /\ pc[p] = "idle" /\ pc'[p] # "idle"
    /\ req'[p].user \in DOMAIN db
    /\ \/ usr'[p].tfa # db[req'[p].user].tfa
       \/ usr'[p].secret # db[req'[p].user].secret

\* C38: every stored user and every aggregate in a handler has
\* two_factor_enabled exactly when two_factor_secret is set, and no backup codes
\* when it is off; only enable_two_factor and disable_two_factor change
\* two_factor_enabled or two_factor_secret of the user they loaded.
C38_TwoFactorFieldsConsistent ==
    /\ [](/\ \A u \in DOMAIN db : TwoFactorFieldsAgree(db[u])
          /\ \A p \in Procs : pc[p] \in {"save_select", "save_update"} =>
                                TwoFactorFieldsAgree(usr[p]))
    /\ [][\A p \in Procs : ChangesTwoFactor(p) =>
            req'[p].op \in {"enable_two_factor", "disable_two_factor"}]_vars

\* a user who had two-factor authentication on has it off in the database, and
\* another one has it on
C38_Witness ==
    /\ ~db["u1"].tfa /\ db["u1"].version > InitialVersion + 3
    /\ db["u2"].tfa

\* what the service answers for token t: as bearer token, and as refresh token
\* of its subject
TokenValidity(t) == <<validate_token(t), validate_refresh_token(t.sub, t)>>

\* C39: the step of logout that blacklists the jti of the access token it was
\* given, and the step of refresh_token that revokes the redeemed refresh token
\* and stores its successor, leave every other token that has been issued, of
\* the same user and of other users, validating exactly as before.
C39_RevocationIsPerToken ==
    [][\A p \in Procs :
        /\ (pc[p] = "idle" /\ req'[p].op = "logout") =>
                \A t \in tokens : t # req'[p].tok => TokenValidity(t)' = TokenValidity(t)
        /\ (pc[p] = "rotate" /\ pc'[p] = "done") =>
                \A t \in tokens : t # req[p].tok => TokenValidity(t)' = TokenValidity(t)
    ]_vars

\* one access token is on the blacklist, one refresh token has been redeemed,
\* and another access token and another refresh token of the same user are
\* still accepted
C39_Witness ==
    \E a, b, r \in tokens :
        /\ a.sub = b.sub /\ a # b /\ r.sub = a.sub
        /\ a.jti # 0 /\ is_token_blacklisted(a.jti) /\ validate_token(b)
        /\ b.kind = "access"
        /\ r.kind = "refresh" /\ validate_refresh_token(r.sub, r)
        /\ \E d \in redemptions : d.jti # r.jti

\* user u holds a grant, direct or through a custom role, that is not expired at
\* t and matches the request
HoldsGrant(u, rt, pt, rid, t) ==
    \/ \E perm \in u.permissions : permission_allows(perm, rt, pt, rid, t)
    \/ \E role \in u.custom_roles : \E perm \in role.permissions :
            permission_allows(perm, rt, pt, rid, t)

====
